---- MODULE Spec2Model ----
(***************************************************************************)
(* A model of the stream aggregation engine of realtime-ecommerce-         *)
(* analytics: the Window store, the SessionAggregator's event fold and     *)
(* snapshot derivation, the scoring client, the two sink writers and the   *)
(* StreamProcessor's threads and lifecycle.                                *)
(*                                                                         *)
(* Conventions.  A Python value that may be None is a sequence: Nil is     *)
(* None and Some(v) is v.  A dict (an event, a decoded response) is a      *)
(* record whose DOMAIN is the set of keys present, so dict.get(k, d) is    *)
(* Get(e, k, d).  Money is in whole currency units and time in whole       *)
(* seconds.                                                                *)
(***************************************************************************)
EXTENDS Integers, Sequences, FiniteSets, TLC

VARIABLES
    session_metrics,  \* SessionAggregator.session_metrics: session id -> accumulator
    session_starts,   \* SessionAggregator.session_starts: session id -> start time
    nfolds,           \* number of process_event calls made (bounds the run)
    data,             \* Window.data: key -> deque of [event, timestamp]
    now,              \* the clock datetime.now() reads, in seconds
    inserted,         \* history: the add_event calls made, [key, event, at]
    lastGet,          \* history: the last get_window_data call and its result
    allKeys,          \* history: the last get_all_keys result, with deque sizes
    cev,              \* consumer thread -> the event its process_event call folds
    cidx,             \* consumer thread -> the read-modify-write it has reached
    ctmp,             \* consumer thread -> the value it loaded, not yet stored
    cdone,            \* history: the events whose process_event call returned
    running,          \* StreamProcessor.running
    pg_conn,          \* StreamProcessor.pg_conn: "none", "open", "dropped", "closed"
    redis_client,     \* StreamProcessor.redis_client: "none", "open", "unreachable", "closed"
    threads,          \* StreamProcessor.threads, each with the place its loop is at
    callpc,           \* caller thread -> the place it is at inside start() or stop()
    ml_service,       \* SessionAggregator.ml_service is set (not None)
    user_sessions,    \* relational table user_sessions: its rows, in insertion order
    ml_predictions,   \* relational table ml_predictions: the rows logged
    redis_store,      \* cache: key -> the value set
    aggKeys,          \* the keys the aggregation loop's current tick has yet to visit
    lastCall,         \* history: the last process_window call and what it did
    prevDur,          \* history: key -> duration in the snapshot before the last
    lastDur,          \* history: key -> duration in the last snapshot emitted
    nwindows,         \* number of process_window calls made (bounds the run)
    state,            \* StateStore.state: key -> value
    lock,             \* StateStore.lock: the thread that holds it, or Nil
    sop,              \* thread -> the StateStore call it is inside, with its place
    scur,             \* thread -> the value its call read under the lock
    sbase,            \* history: key -> the value of the last put (0 after a delete)
    supdates,         \* history: key -> update calls completed since that put or delete
    nstore,           \* number of StateStore calls made (bounds the run)
    speak,            \* history: the most StateStore calls in flight at once
    lpc,              \* consumer thread -> the place its _consumer_loop is at
    batch,            \* consumer thread -> the records of its poll not yet taken
    lseen,            \* history: what became of each record taken, in order
    npolls            \* number of poll calls made (bounds the run)

foldVars == <<session_metrics, session_starts, nfolds>>

winVars == <<data, now, inserted, lastGet, allKeys>>

concVars == <<cev, cidx, ctmp, cdone>>

lifeVars == <<running, pg_conn, redis_client, threads, callpc>>

aggVars == <<ml_service, user_sessions, ml_predictions, redis_store, aggKeys,
             lastCall, prevDur, lastDur, nwindows>>

storeVars == <<state, lock, sop, scur, sbase, supdates, nstore, speak>>

\* the groups added to the five above
loopVars == <<lpc, batch, lseen, npolls>>

extVars == <<storeVars, loopVars>>

vars == <<foldVars, winVars, concVars, lifeVars, aggVars, extVars>>

(***************************************************************************)
(* Python values                                                           *)
(***************************************************************************)
Nil == <<>>

Some(v) == <<v>>

\* dict.get(k, d)
Get(e, k, d) == IF k \in DOMAIN e THEN e[k] ELSE d

\* bool(x) of a str or None: None and "" are falsy
TruthyStr(x) == x # Nil /\ x[1] # ""

\* bool(x) of an int or None: None and 0 are falsy
TruthyInt(x) == x # Nil /\ x[1] # 0

\* d[k] = v on a dict held as a function
Put(d, k, v) == [x \in DOMAIN d \cup {k} |-> IF x = k THEN v ELSE d[x]]

Max(a, b) == IF a >= b THEN a ELSE b

Min(a, b) == IF a <= b THEN a ELSE b

\* datetime.fromisoformat(ts.replace('Z', '+00:00')).replace(tzinfo=None):
\* the text's clock reading is kept and its UTC offset is dropped, not applied.
\* A timestamp text is [t |-> clock reading, off |-> UTC offset].
ParseTs(ts) == ts.t

(***************************************************************************)
(* SessionAggregator.process_event                                         *)
(***************************************************************************)
\* the defaultdict factory of session_metrics
DefaultMetrics ==
    [page_views |-> 0, products_viewed |-> {}, cart_additions |-> 0,
     cart_removals |-> 0, searches |-> 0, cart_value |-> 0,
     is_converted |-> FALSE, purchase_value |-> Some(0),
     is_cart_abandoned |-> FALSE, abandonment_reason |-> Nil,
     time_in_cart_seconds |-> Some(0), checkout_initiated |-> FALSE,
     persona |-> Nil]

\* an accumulator map that would hand out a fresh accumulator on every access
TouchFresh(m, sid) == Put(m, sid, DefaultMetrics)

\* self.session_metrics[session_id]: a missing key is created with the default
Touch(m, sid) == IF sid \in DOMAIN m THEN m ELSE Put(m, sid, DefaultMetrics)

\* the session_start branch's persona assignment
SetPersona(acc, persona) == [acc EXCEPT !.persona = persona]

\* the remove_from_cart branch's cart arithmetic: subtract, then max(0, .)
RemoveFromCartValue(cart_value, price, quantity) ==
    Max(0, cart_value - price * quantity)

\* the add_to_cart branch's cart arithmetic
AddToCartValue(cart_value, price, quantity) == cart_value + price * quantity

\* a purchase branch that would also empty the cart
PurchaseClearsCart(acc, e) ==
    [acc EXCEPT !.is_converted = TRUE,
                !.purchase_value = Get(e, "cart_value", Some(0)),
                !.cart_value = 0]

\* a purchase branch that would add the event's value to the value so far
PurchaseAccumulates(acc, e) ==
    [acc EXCEPT !.is_converted = TRUE,
                !.purchase_value =
                    Some(@[1] + Get(e, "cart_value", Some(0))[1])]

\* the purchase branch
Purchase(acc, e) ==
    [acc EXCEPT !.is_converted = TRUE,
                !.purchase_value = Get(e, "cart_value", Some(0))]

\* The event-type dispatch on the session's accumulator.  ok = FALSE when a
\* statement of the branch raises; the assignments made before it stay.
Dispatch(acc, e) ==
    LET event_type == Get(e, "event_type", Nil)
        price == Get(e, "price", Some(0))
        quantity == Get(e, "quantity", Some(1))
    IN  IF event_type = Some("page_view") THEN
            [acc |-> [acc EXCEPT !.page_views = @ + 1], ok |-> TRUE]
        ELSE IF event_type = Some("product_view") THEN
            LET product_id == Get(e, "product_id", Nil)
            IN  [acc |-> IF TruthyInt(product_id)
                         THEN [acc EXCEPT !.products_viewed = @ \cup {product_id[1]}]
                         ELSE acc,
                 ok |-> TRUE]
        ELSE IF event_type = Some("add_to_cart") THEN
            LET a1 == [acc EXCEPT !.cart_additions = @ + 1]
            IN  IF price = Nil \/ quantity = Nil
                THEN [acc |-> a1, ok |-> FALSE]          \* None * n: TypeError
                ELSE [acc |-> [a1 EXCEPT !.cart_value =
                                  AddToCartValue(@, price[1], quantity[1])],
                      ok |-> TRUE]
        ELSE IF event_type = Some("remove_from_cart") THEN
            LET a1 == [acc EXCEPT !.cart_removals = @ + 1]
            IN  IF price = Nil \/ quantity = Nil
                THEN [acc |-> a1, ok |-> FALSE]          \* None * n: TypeError
                ELSE [acc |-> [a1 EXCEPT !.cart_value =
                                  RemoveFromCartValue(@, price[1], quantity[1])],
                      ok |-> TRUE]
        ELSE IF event_type = Some("search") THEN
            [acc |-> [acc EXCEPT !.searches = @ + 1], ok |-> TRUE]
        ELSE IF event_type = Some("checkout_initiated") THEN
            [acc |-> [acc EXCEPT !.checkout_initiated = TRUE], ok |-> TRUE]
        ELSE IF event_type = Some("purchase") THEN
            [acc |-> Purchase(acc, e), ok |-> TRUE]
        ELSE IF event_type = Some("cart_abandoned") THEN
            [acc |-> [acc EXCEPT !.is_cart_abandoned = TRUE,
                                 !.abandonment_reason = Get(e, "abandonment_reason", Nil),
                                 !.time_in_cart_seconds =
                                     Get(e, "time_in_cart_seconds", Some(0))],
             \* the log line formats event.get('cart_value', 0) with :.2f
             ok |-> Get(e, "cart_value", Some(0)) # Nil]
        ELSE [acc |-> acc, ok |-> TRUE]

\* process_event(event) on the maps m = session_metrics and s = session_starts:
\* the maps it leaves and what it returns (Some(event), or Nil for None).
process_event(m, s, e) ==
    LET session_id == Get(e, "session_id", Nil)
        event_type == Get(e, "event_type", Nil)
        timestamp_str == Get(e, "timestamp", Nil)
        persona == Get(e, "persona", Nil)
        isStart == event_type = Some("session_start")
    IN  IF ~TruthyStr(session_id) THEN
            [metrics |-> m, starts |-> s, ret |-> Nil]
        ELSE IF isStart /\ timestamp_str = Nil THEN
            \* None.replace: AttributeError, caught, before any assignment
            [metrics |-> m, starts |-> s, ret |-> Nil]
        ELSE
            LET sid == session_id[1]
                s1 == IF isStart THEN Put(s, sid, ParseTs(timestamp_str[1])) ELSE s
                m1 == IF isStart /\ TruthyStr(persona)
                      THEN Put(m, sid, SetPersona(Touch(m, sid)[sid], persona))
                      ELSE m
                m2 == Touch(m1, sid)
                r == Dispatch(m2[sid], e)
            IN  [metrics |-> Put(m2, sid, r.acc), starts |-> s1,
                 ret |-> IF r.ok THEN Some(e) ELSE Nil]

(***************************************************************************)
(* Bounds and inputs of the fold specification                             *)
(***************************************************************************)
MaxFolds == 3

Sessions == {"s1", "s2"}

Personas == {"intent_buyer", "window_shopper"}

Z(t) == [t |-> t, off |-> 0]

\* price * quantity products the feed's schema (price: float, quantity: int,
\* no range constraint) can carry, including a negative price
FoldPrices == {-1, 1, 2}

FoldEvents ==
    {[session_id |-> Some(sid), event_type |-> Some("session_start"),
      timestamp |-> Some(Z(1)), persona |-> Some(p)] :
        sid \in Sessions, p \in Personas}
    \cup {[session_id |-> Some(sid), event_type |-> Some(ty),
           timestamp |-> Some(Z(1)), price |-> Some(pr), quantity |-> Some(1)] :
        sid \in Sessions, ty \in {"add_to_cart", "remove_from_cart"},
        pr \in FoldPrices}
    \cup {[session_id |-> Some(sid), event_type |-> Some("page_view"),
           timestamp |-> Some(Z(1))] : sid \in Sessions}

\* SessionAggregator.__init__: both maps empty
FoldIdle ==
    /\ session_metrics = <<>>
    /\ session_starts = <<>>
    /\ nfolds = 0

\* Window.__init__: no key, the clock at 0, nothing recorded
WinIdle ==
    /\ data = <<>>
    /\ now = 0
    /\ inserted = <<>>
    /\ lastGet = Nil
    /\ allKeys = Nil

\* SessionAggregator.__init__ passes parallelism=2: two consumer threads
Parallelism == 2

Consumers == 0..(Parallelism - 1)

\* no consumer thread is inside process_event
ConcIdle ==
    /\ cev = [t \in Consumers |-> Nil]
    /\ cidx = [t \in Consumers |-> 0]
    /\ ctmp = [t \in Consumers |-> Nil]
    /\ cdone = <<>>

\* the threads that call start() and stop(): the main thread, and another
\* one such as a signal handler
Callers == {"main", "other"}

\* StreamProcessor.__init__: not running, no connection, no thread
LifeIdle ==
    /\ running = FALSE
    /\ pg_conn = "none"
    /\ redis_client = "none"
    /\ threads = <<>>
    /\ callpc = [c \in Callers |-> "idle"]

\* no tick under way, no sink written, ml_service still None
AggIdle ==
    /\ ml_service = FALSE
    /\ user_sessions = <<>>
    /\ ml_predictions = <<>>
    /\ redis_store = <<>>
    /\ aggKeys = Nil
    /\ lastCall = Nil
    /\ prevDur = <<>>
    /\ lastDur = <<>>
    /\ nwindows = 0

\* the threads that call the StateStore
StoreThreads == {"t1", "t2", "t3"}

StoreKeys == {"counter", "other"}

\* StateStore.__init__: an empty dict and a free lock
StoreIdle ==
    /\ state = <<>>
    /\ lock = Nil
    /\ sop = [t \in StoreThreads |-> Nil]
    /\ scur = [t \in StoreThreads |-> Nil]
    /\ sbase = [k \in StoreKeys |-> 0]
    /\ supdates = [k \in StoreKeys |-> 0]
    /\ nstore = 0
    /\ speak = 0

\* the consumer threads about to test `while self.running`, nothing polled
LoopIdle ==
    /\ lpc = [c \in Consumers |-> "test"]
    /\ batch = [c \in Consumers |-> <<>>]
    /\ lseen = <<>>
    /\ npolls = 0

ExtIdle == StoreIdle /\ LoopIdle

InitFold == FoldIdle /\ WinIdle /\ ConcIdle /\ LifeIdle /\ AggIdle /\ ExtIdle

\* one process_event call, made by a single caller
FoldEvent(e) ==
    /\ nfolds < MaxFolds
    /\ LET r == process_event(session_metrics, session_starts, e)
       IN  /\ session_metrics' = r.metrics
           /\ session_starts' = r.starts
    /\ nfolds' = nfolds + 1
    /\ UNCHANGED <<extVars, winVars, concVars, lifeVars, aggVars>>

NextFold == \E e \in FoldEvents : FoldEvent(e)

SpecFold == InitFold /\ [][NextFold]_vars

(***************************************************************************)
(* C2: after any fold of add_to_cart / remove_from_cart events the         *)
(* session's accumulated cart_value is never negative.                     *)
(***************************************************************************)
C2_CartValueNeverNegative ==
    \A sid \in DOMAIN session_metrics : session_metrics[sid].cart_value >= 0

(***************************************************************************)
(* C3: persona is first-write-wins: once a session's persona is set by a   *)
(* session_start, no later fold changes it.                                *)
(***************************************************************************)
C3_PersonaFirstWriteWins ==
    [][\A sid \in DOMAIN session_metrics :
          session_metrics[sid].persona # Nil
              => session_metrics'[sid].persona = session_metrics[sid].persona]_vars

(***************************************************************************)
(* Window                                                                  *)
(***************************************************************************)
\* the window duration of the model's Window, in seconds
Duration == 2

MaxTime == 4

MaxAdds == 3

Keys == {"k1", "k2"}

\* self.data[key] on the defaultdict(deque): a missing key is created empty
TouchKey(d, key) == IF key \in DOMAIN d THEN d ELSE Put(d, key, <<>>)

\* a plausible slip: the cutoff is taken as `now`, the duration left out
CleanupNoDuration(d, key, t) ==
    LET d0 == TouchKey(d, key)
        live == SelectSeq(d0[key], LAMBDA x : ~(x.timestamp < t))
    IN  Put(d0, key, live)

\* a plausible slip: `if` for `while`, so that one entry at most is dropped
CleanupOnce(d, key, t) ==
    LET d0 == TouchKey(d, key)
        q == d0[key]
    IN  IF q # <<>> /\ q[1].timestamp < t - Duration
        THEN Put(d0, key, Tail(q)) ELSE d0

\* Window._cleanup_expired(key, now): popleft while the oldest entry's
\* timestamp is before now - duration
RECURSIVE PopExpired(_, _)
PopExpired(q, cutoff) ==
    IF q # <<>> /\ q[1].timestamp < cutoff
    THEN PopExpired(Tail(q), cutoff) ELSE q

cleanup_expired(d, key, t) ==
    LET d0 == TouchKey(d, key)
    IN  Put(d0, key, PopExpired(d0[key], t - Duration))

\* Window.add_event(key, event) at clock reading t: append, then purge
add_event(d, key, event, t) ==
    LET d0 == TouchKey(d, key)
        d1 == Put(d0, key, Append(d0[key], [event |-> event, timestamp |-> t]))
    IN  cleanup_expired(d1, key, t)

\* Window.get_window_data(key) at clock reading t: the store it leaves and
\* the list it returns
get_window_data(d, key, t) ==
    LET d1 == cleanup_expired(d, key, t)
    IN  [data |-> d1,
         events |-> [i \in 1..Len(d1[key]) |-> d1[key][i].event]]

\* Window.get_all_keys()
get_all_keys(d) == DOMAIN d

\* the clock advances; the lock makes every Window method one step
Tick ==
    /\ now < MaxTime
    /\ now' = now + 1
    /\ UNCHANGED <<extVars, data, inserted, lastGet, allKeys, foldVars, concVars, lifeVars, aggVars>>

\* a thread calls add_event(key, e); e is the call's serial number
AddEvent(key) ==
    /\ Len(inserted) < MaxAdds
    /\ LET e == Len(inserted) + 1
       IN  /\ data' = add_event(data, key, e, now)
           /\ inserted' = Append(inserted, [key |-> key, event |-> e, at |-> now])
    /\ UNCHANGED <<extVars, now, lastGet, allKeys, foldVars, concVars, lifeVars, aggVars>>

\* a thread calls get_window_data(key) for a key the store holds, as the
\* aggregation loop does with the keys get_all_keys gave it
GetWindowData(key) ==
    /\ key \in DOMAIN data
    /\ LET r == get_window_data(data, key, now)
       IN  /\ data' = r.data
           /\ lastGet' = Some([key |-> key, at |-> now, n |-> Len(inserted),
                               events |-> r.events])
    /\ UNCHANGED <<extVars, now, inserted, allKeys, foldVars, concVars, lifeVars, aggVars>>

\* a thread calls get_all_keys(); the size of each returned key's deque at
\* the time of the call is recorded with it
GetAllKeys ==
    /\ allKeys' = Some([k \in get_all_keys(data) |-> Len(data[k])])
    /\ UNCHANGED <<extVars, data, now, inserted, lastGet, foldVars, concVars, lifeVars, aggVars>>

InitWindow == FoldIdle /\ WinIdle /\ ConcIdle /\ LifeIdle /\ AggIdle /\ ExtIdle

NextWindow ==
    \/ Tick
    \/ \E key \in Keys : AddEvent(key)
    \/ \E key \in Keys : GetWindowData(key)
    \/ GetAllKeys

SpecWindow == InitWindow /\ [][NextWindow]_vars

\* the add_event calls for the key of the last get_window_data made before it
AddsBeforeGet ==
    {i \in 1..lastGet[1].n : inserted[i].key = lastGet[1].key}

InSeq(x, q) == \E j \in 1..Len(q) : q[j] = x

(***************************************************************************)
(* C4: get_window_data(key) never returns an event that add_event put in   *)
(* more than Duration seconds before the call.                             *)
(***************************************************************************)
C4_NoExpiredEventReturned ==
    lastGet # Nil =>
        \A i \in AddsBeforeGet :
            lastGet[1].at - inserted[i].at > Duration
                => ~InSeq(inserted[i].event, lastGet[1].events)

\* a get_window_data call that met at least two expired entries and a live one
C4_Witness ==
    /\ lastGet # Nil
    /\ Cardinality({i \in AddsBeforeGet :
                       lastGet[1].at - inserted[i].at > Duration}) >= 2
    /\ lastGet[1].events # <<>>

(***************************************************************************)
(* C5: a get_window_data(key) made less than Duration seconds after        *)
(* add_event(key, e) returns a list that contains e, and the list is in    *)
(* insertion order, oldest first.                                          *)
(***************************************************************************)
C5_LiveEventsReturnedInOrder ==
    lastGet # Nil =>
        /\ \A i \in AddsBeforeGet :
               lastGet[1].at - inserted[i].at < Duration
                   => InSeq(inserted[i].event, lastGet[1].events)
        /\ \A p, q \in 1..Len(lastGet[1].events) :
               p < q => lastGet[1].events[p] < lastGet[1].events[q]

\* a get_window_data call, made after the clock moved, that returned two
\* events of its key while calls on the other key came in between
C5_Witness ==
    /\ lastGet # Nil
    /\ Len(lastGet[1].events) >= 2
    /\ \E i \in AddsBeforeGet : 0 < lastGet[1].at - inserted[i].at
                                /\ lastGet[1].at - inserted[i].at < Duration
    /\ \E i \in 1..lastGet[1].n : inserted[i].key # lastGet[1].key

(***************************************************************************)
(* C6: every key get_all_keys() returns has at least one entry in its      *)
(* deque at the time of the call.                                          *)
(***************************************************************************)
C6_ReturnedKeysHaveEntries ==
    allKeys # Nil => \A k \in DOMAIN allKeys[1] : allKeys[1][k] >= 1

(***************************************************************************)
(* process_event run by the consumer threads, statement by statement       *)
(*                                                                         *)
(* _consumer_loop calls process_event from each of the Parallelism threads *)
(* and process_event takes no lock.  An augmented assignment on a dict     *)
(* item, metrics[k] += v, is a load of the item followed by a store, and   *)
(* another thread may run between the two.                                 *)
(***************************************************************************)
MaxConc == 3

ConcEvents ==
    {[session_id |-> Some("s1"), event_type |-> Some("page_view"),
      timestamp |-> Some(Z(1))],
     [session_id |-> Some("s1"), event_type |-> Some("search"),
      timestamp |-> Some(Z(1))],
     [session_id |-> Some("s1"), event_type |-> Some("add_to_cart"),
      timestamp |-> Some(Z(1)), price |-> Some(2), quantity |-> Some(1)],
     [session_id |-> Some("s1"), event_type |-> Some("remove_from_cart"),
      timestamp |-> Some(Z(1)), price |-> Some(1), quantity |-> Some(1)]}

\* The read-modify-write statements of the event type's branch, in order:
\* the accumulator item each loads and stores, and what it computes.
Statements(e) ==
    LET event_type == Get(e, "event_type", Nil)
    IN  IF event_type = Some("page_view") THEN
            <<[item |-> "page_views", op |-> "inc"]>>
        ELSE IF event_type = Some("search") THEN
            <<[item |-> "searches", op |-> "inc"]>>
        ELSE IF event_type = Some("add_to_cart") THEN
            <<[item |-> "cart_additions", op |-> "inc"],
              [item |-> "cart_value", op |-> "add"]>>
        ELSE IF event_type = Some("remove_from_cart") THEN
            <<[item |-> "cart_removals", op |-> "inc"],
              [item |-> "cart_value", op |-> "sub"],
              [item |-> "cart_value", op |-> "floor"]>>
        ELSE <<>>

\* the value a statement stores, from the value v it loaded
Computed(op, v, e) ==
    LET amount == Get(e, "price", Some(0))[1] * Get(e, "quantity", Some(1))[1]
    IN  IF op = "inc" THEN v + 1
        ELSE IF op = "add" THEN v + amount
        ELSE IF op = "sub" THEN v - amount
        ELSE Max(0, v)

\* thread t enters process_event(e): the session_id test, then
\* metrics = self.session_metrics[session_id]
ConcBegin(t, e) ==
    /\ cev[t] = Nil
    /\ Len(cdone) + Cardinality({u \in Consumers : cev[u] # Nil}) < MaxConc
    /\ TruthyStr(Get(e, "session_id", Nil))
    /\ session_metrics' = Touch(session_metrics, Get(e, "session_id", Nil)[1])
    /\ cev' = [cev EXCEPT ![t] = Some(e)]
    /\ cidx' = [cidx EXCEPT ![t] = 1]
    /\ UNCHANGED <<extVars, ctmp, cdone, session_starts, nfolds, winVars, lifeVars, aggVars>>

\* thread t loads the item of its current statement
ConcLoad(t) ==
    /\ cev[t] # Nil
    /\ ctmp[t] = Nil
    /\ LET e == cev[t][1]
           st == Statements(e)[cidx[t]]
           sid == e.session_id[1]
       IN  ctmp' = [ctmp EXCEPT ![t] = Some(session_metrics[sid][st.item])]
    /\ UNCHANGED <<extVars, cev, cidx, cdone, foldVars, winVars, lifeVars, aggVars>>

\* thread t stores the item of its current statement; after the branch's
\* last statement process_event returns the event
ConcStore(t) ==
    /\ cev[t] # Nil
    /\ ctmp[t] # Nil
    /\ LET e == cev[t][1]
           sts == Statements(e)
           st == sts[cidx[t]]
           sid == e.session_id[1]
       IN  /\ session_metrics' =
                  [session_metrics EXCEPT
                      ![sid][st.item] = Computed(st.op, ctmp[t][1], e)]
           /\ IF cidx[t] = Len(sts)
              THEN /\ cev' = [cev EXCEPT ![t] = Nil]
                   /\ cidx' = [cidx EXCEPT ![t] = 0]
                   /\ cdone' = Append(cdone, e)
              ELSE /\ cidx' = [cidx EXCEPT ![t] = @ + 1]
                   /\ UNCHANGED <<cev, cdone>>
    /\ ctmp' = [ctmp EXCEPT ![t] = Nil]
    /\ UNCHANGED <<extVars, session_starts, nfolds, winVars, lifeVars, aggVars>>

InitConc == FoldIdle /\ WinIdle /\ ConcIdle /\ LifeIdle /\ AggIdle /\ ExtIdle

NextConc ==
    \E t \in Consumers :
        \/ \E e \in ConcEvents : ConcBegin(t, e)
        \/ ConcLoad(t)
        \/ ConcStore(t)

SpecConc == InitConc /\ [][NextConc]_vars

\* the accumulators left by folding the events of q one at a time, in order
RECURSIVE FoldAll(_, _)
FoldAll(m, q) ==
    IF q = <<>> THEN m
    ELSE FoldAll(process_event(m, <<>>, Head(q)).metrics, Tail(q))

\* the accumulators some serial order of the events of q can leave
SerialOutcomes(q) ==
    LET n == Len(q)
        perms == {f \in [1..n -> 1..n] : \A i, j \in 1..n : f[i] = f[j] => i = j}
    IN  {FoldAll(<<>>, [i \in 1..n |-> q[f[i]]]) : f \in perms}

(***************************************************************************)
(* C1: no update is lost: when no thread is inside process_event, the      *)
(* accumulators equal the result of folding the returned events one at a   *)
(* time in some serial order.                                              *)
(***************************************************************************)
C1_NoLostUpdate ==
    (\A t \in Consumers : cev[t] = Nil) /\ cdone # <<>>
        => session_metrics \in SerialOutcomes(cdone)

(***************************************************************************)
(* StreamProcessor lifecycle: start(), stop() and the loops' running tests *)
(***************************************************************************)
\* the number of start() calls that get as far as spawning threads
MaxStarts == 2

\* the threads one start() appends to self.threads: the consumers, then the
\* aggregator, each about to test `while self.running`
Spawned ==
    [i \in 1..(Parallelism + 1) |->
        [kind |-> IF i <= Parallelism THEN "consumer" ELSE "agg", pc |-> "top"]]

AggThreads == {i \in 1..Len(threads) : threads[i].kind = "agg"}

ConsumerThreads == {i \in 1..Len(threads) : threads[i].kind = "consumer"}

\* start(): `if self.running: return`
StartCheck(c) ==
    /\ callpc[c] \in {"idle", "raised"}
    /\ Cardinality(AggThreads)
         + Cardinality({d \in Callers : callpc[d] \in {"start_init", "start_spawn"}})
         < MaxStarts
    /\ callpc' = [callpc EXCEPT ![c] = IF running THEN "idle" ELSE "start_init"]
    /\ UNCHANGED <<extVars, running, pg_conn, redis_client, threads,
                   foldVars, winVars, concVars, aggVars>>

\* start() as it would be if a failed connection attempt were swallowed
StartInitSwallowed(c, outcome) ==
    /\ callpc[c] = "start_init"
    /\ pg_conn' = IF outcome = "pg_fail" THEN pg_conn ELSE "open"
    /\ redis_client' = IF outcome = "pg_fail" THEN redis_client
                       ELSE IF outcome = "redis_fail" THEN "unreachable"
                       ELSE "open"
    /\ callpc' = [callpc EXCEPT ![c] = "start_spawn"]
    /\ UNCHANGED <<extVars, running, threads, foldVars, winVars, concVars, aggVars>>

\* start(): _init_postgres() and _init_redis(); either may raise, and the
\* error leaves start() with running untouched: the caller is left holding
\* the exception ("raised").  redis.Redis(...) is assigned before ping()
\* raises, so a failed cache attempt leaves a client that is not connected.
StartInit(c, outcome) ==
    /\ callpc[c] = "start_init"
    /\ pg_conn' = IF outcome = "pg_fail" THEN pg_conn ELSE "open"
    /\ redis_client' = IF outcome = "pg_fail" THEN redis_client
                       ELSE IF outcome = "redis_fail" THEN "unreachable"
                       ELSE "open"
    /\ callpc' = [callpc EXCEPT ![c] = IF outcome = "ok" THEN "start_spawn"
                                        ELSE "raised"]
    /\ UNCHANGED <<extVars, running, threads, foldVars, winVars, concVars, aggVars>>

\* start(): self.running = True, then the consumer threads and the
\* aggregation thread are started and appended to self.threads
StartSpawn(c) ==
    /\ callpc[c] = "start_spawn"
    /\ running' = TRUE
    /\ threads' = threads \o Spawned
    /\ callpc' = [callpc EXCEPT ![c] = "idle"]
    /\ UNCHANGED <<extVars, pg_conn, redis_client, foldVars, winVars, concVars, aggVars>>

\* stop(): self.running = False
StopFlag(c) ==
    /\ callpc[c] \in {"idle", "raised"}
    /\ running' = FALSE
    /\ callpc' = [callpc EXCEPT ![c] = "stop_join"]
    /\ UNCHANGED <<extVars, pg_conn, redis_client, threads, foldVars, winVars, concVars, aggVars>>

\* stop() as it would be if it closed the connections without testing them
StopCloseUntested(c) ==
    /\ callpc[c] = "stop_join"
    /\ \A i \in 1..Len(threads) : threads[i].pc # "top"
    /\ IF pg_conn = "none" \/ redis_client = "none"
       THEN /\ callpc' = [callpc EXCEPT ![c] = "raised"]
            /\ UNCHANGED <<pg_conn, redis_client>>
       ELSE /\ pg_conn' = "closed"
            /\ redis_client' = "closed"
            /\ callpc' = [callpc EXCEPT ![c] = "idle"]
    /\ UNCHANGED <<extVars, running, threads, foldVars, winVars, concVars, aggVars>>

\* stop(): every join(timeout=5) has returned and the connections that exist
\* are closed.  A join returns when its thread has finished or after 5 s: a
\* thread at its loop's running test finishes at once, while one inside a
\* tick, inside the 60 s sleep (Window.slide) or inside a poll batch can
\* outlast the join.
StopClose(c) ==
    /\ callpc[c] = "stop_join"
    /\ \A i \in 1..Len(threads) : threads[i].pc # "top"
    /\ pg_conn' = IF pg_conn # "none" THEN "closed" ELSE pg_conn
    /\ redis_client' = IF redis_client # "none" THEN "closed" ELSE redis_client
    /\ callpc' = [callpc EXCEPT ![c] = "idle"]
    /\ UNCHANGED <<extVars, running, threads, foldVars, winVars, concVars, aggVars>>

\* a loop as it would be if it never tested the flag
LoopTestIgnoresFlag(i) ==
    /\ threads[i].pc = "top"
    /\ threads' = [threads EXCEPT ![i].pc =
                      IF threads[i].kind = "agg" THEN "tick" ELSE "poll"]
    /\ UNCHANGED <<extVars, running, pg_conn, redis_client, callpc,
                   foldVars, winVars, concVars, aggVars>>

\* a loop's `while self.running` test: into the body, or out of the loop
LoopTest(i) ==
    /\ threads[i].pc = "top"
    /\ threads' = [threads EXCEPT ![i].pc =
                      IF running
                      THEN (IF threads[i].kind = "agg" THEN "tick" ELSE "poll")
                      ELSE "done"]
    /\ UNCHANGED <<extVars, running, pg_conn, redis_client, callpc,
                   foldVars, winVars, concVars, aggVars>>

\* _consumer_loop: one poll(timeout_ms=1000) and its records' processing
ConsumerPoll(i) ==
    /\ threads[i].kind = "consumer" /\ threads[i].pc = "poll"
    /\ threads' = [threads EXCEPT ![i].pc = "top"]
    /\ UNCHANGED <<extVars, running, pg_conn, redis_client, callpc,
                   foldVars, winVars, concVars, aggVars>>

\* _aggregation_loop: the tick's pass over the keys ends and the thread
\* goes into time.sleep(self.window.slide)
AggTickEnd(i) ==
    /\ threads[i].kind = "agg" /\ threads[i].pc = "tick"
    /\ threads' = [threads EXCEPT ![i].pc = "sleep"]
    /\ UNCHANGED <<extVars, running, pg_conn, redis_client, callpc,
                   foldVars, winVars, concVars, aggVars>>

\* _aggregation_loop: the tick reaches a key with a non-empty window and
\* process_window enters its writes on self.pg_conn and self.redis_client
\* (log_prediction, sink_to_postgres, sink_to_redis).  Only the aggregation
\* loop calls process_window; _consumer_loop calls process_event and
\* window.add_event alone.
AggWriteBegin(i) ==
    /\ threads[i].kind = "agg" /\ threads[i].pc = "tick"
    /\ threads' = [threads EXCEPT ![i].pc = "write"]
    /\ UNCHANGED <<extVars, running, pg_conn, redis_client, callpc,
                   foldVars, winVars, concVars, aggVars>>

\* _aggregation_loop: the tick's writes have returned (or raised and been
\* caught) and the thread goes into its sleep
AggWriteEnd(i) ==
    /\ threads[i].kind = "agg" /\ threads[i].pc = "write"
    /\ threads' = [threads EXCEPT ![i].pc = "sleep"]
    /\ UNCHANGED <<extVars, running, pg_conn, redis_client, callpc,
                   foldVars, winVars, concVars, aggVars>>

\* _aggregation_loop: the sleep ends
AggWake(i) ==
    /\ threads[i].kind = "agg" /\ threads[i].pc = "sleep"
    /\ threads' = [threads EXCEPT ![i].pc = "top"]
    /\ UNCHANGED <<extVars, running, pg_conn, redis_client, callpc,
                   foldVars, winVars, concVars, aggVars>>

InitLife == FoldIdle /\ WinIdle /\ ConcIdle /\ LifeIdle /\ AggIdle /\ ExtIdle

NextLife ==
    \/ \E c \in Callers : StartCheck(c)
    \/ \E c \in Callers, o \in {"ok", "pg_fail", "redis_fail"} : StartInit(c, o)
    \/ \E c \in Callers : StartSpawn(c)
    \/ \E c \in Callers : StopFlag(c)
    \/ \E c \in Callers : StopClose(c)
    \/ \E i \in 1..Len(threads) : LoopTest(i)
    \/ \E i \in 1..Len(threads) : ConsumerPoll(i)
    \/ \E i \in 1..Len(threads) : AggTickEnd(i)
    \/ \E i \in 1..Len(threads) : AggWriteBegin(i)
    \/ \E i \in 1..Len(threads) : AggWriteEnd(i)
    \/ \E i \in 1..Len(threads) : AggWake(i)

SpecLife == InitLife /\ [][NextLife]_vars

\* the threads any MaxStarts calls of start() can have spawned
ThreadIds == 1..(MaxStarts * (Parallelism + 1))

\* one step of thread i, whichever its position
ThreadStep(i) ==
    /\ i <= Len(threads)
    /\ \/ LoopTest(i) \/ ConsumerPoll(i) \/ AggTickEnd(i)
       \/ AggWriteBegin(i) \/ AggWriteEnd(i) \/ AggWake(i)

\* The lifecycle with every spawned thread scheduled again and again and
\* every blocking call returning: poll(timeout_ms=1000), the tick's sink and
\* scoring calls, time.sleep(self.window.slide).  start() and stop() are
\* called when the callers choose, under no fairness.
SpecLifeFair ==
    InitLife /\ [][NextLife]_vars /\ \A i \in ThreadIds : WF_vars(ThreadStep(i))

(***************************************************************************)
(* C7: across any start() and stop() calls, at most one aggregation loop   *)
(* is executing a tick at any time.                                        *)
(***************************************************************************)
C7_AtMostOneAggregationLoop ==
    Cardinality({i \in AggThreads : threads[i].pc \in {"tick", "write"}}) <= 1

(***************************************************************************)
(* C11: a start() whose relational or cache connection attempt fails       *)
(* leaves with the error, without setting running and without spawning a   *)
(* thread; running is set only by a start() that reached its spawn point,  *)
(* and a start() reaches it only with both connections established.        *)
(***************************************************************************)
C11_FailedStartLeavesStopped ==
    [][/\ \A c \in Callers :
             /\ callpc[c] = "start_init" /\ callpc'[c] # "start_init"
                   => IF callpc'[c] = "start_spawn"
                      THEN pg_conn' = "open" /\ redis_client' = "open"
                      ELSE /\ callpc'[c] = "raised"
                           /\ running' = running
                           /\ threads' = threads
       /\ (running' /\ ~running) \/ Len(threads') > Len(threads)
             => \E c \in Callers : callpc[c] = "start_spawn" /\ callpc'[c] = "idle"]_vars

\* a first start() failed on the cache connection: the caller holds the
\* error, the processor is not running and has no thread
C11_Witness ==
    /\ \E c \in Callers : callpc[c] = "raised"
    /\ redis_client = "unreachable"
    /\ ~running
    /\ threads = <<>>

(***************************************************************************)
(* C12: once running is false with threads spawned, either every consumer  *)
(* loop and every aggregation loop exits or a start() sets running again;  *)
(* and while running is false a loop that tests the flag leaves, a         *)
(* consumer having finished at most its current poll, the aggregation loop *)
(* its current tick and sleep.                                             *)
(***************************************************************************)
C12_LoopsExitAfterStop ==
    /\ (~running /\ threads # <<>>)
          ~> (running \/ \A i \in 1..Len(threads) : threads[i].pc = "done")
    /\ [][\A i \in 1..Len(threads) :
             ~running /\ threads[i].pc = "top" /\ threads'[i].pc # "top"
                 => threads'[i].pc = "done"]_vars

\* stop() has run to its end after a start() and every loop has exited
C12_Witness ==
    /\ ~running
    /\ threads # <<>>
    /\ pg_conn = "closed"
    /\ \A i \in 1..Len(threads) : threads[i].pc = "done"

(***************************************************************************)
(* C13: stop() raises nothing, whoever calls it and whether or not start() *)
(* was called; it sets running false and leaves each connection closed or  *)
(* never opened; and on a processor that is already stopped it changes     *)
(* neither running nor the connections.                                    *)
(***************************************************************************)
Stopped ==
    /\ ~running
    /\ pg_conn \in {"none", "closed"}
    /\ redis_client \in {"none", "closed"}

C13_StopIdempotent ==
    [][\A c \in Callers :
          /\ callpc[c] # "stop_join" /\ callpc'[c] = "stop_join" => ~running'
          /\ callpc[c] = "stop_join" /\ callpc'[c] # "stop_join"
                => /\ callpc'[c] = "idle"
                   /\ pg_conn' \in {"none", "closed"}
                   /\ redis_client' \in {"none", "closed"}
          /\ Stopped /\ callpc'[c] # callpc[c]
                     /\ (callpc[c] = "stop_join" \/ callpc'[c] = "stop_join")
                => <<running, pg_conn, redis_client>>' = <<running, pg_conn, redis_client>>]_vars

\* a stop() is under way on a processor that an earlier stop() closed
C13_Witness ==
    /\ Stopped
    /\ pg_conn = "closed" /\ redis_client = "closed"
    /\ threads # <<>>
    /\ \E c \in Callers : callpc[c] = "stop_join"

(***************************************************************************)
(* C20: only an aggregation thread is ever inside a sink write, and no two *)
(* threads are inside a sink write at the same time.                       *)
(***************************************************************************)
C20_SinkWritesSerialized ==
    /\ \A i \in 1..Len(threads) :
          threads[i].pc = "write" => threads[i].kind = "agg"
    /\ Cardinality({i \in 1..Len(threads) : threads[i].pc = "write"}) <= 1

(***************************************************************************)
(* SessionAggregator.process_window, the scoring client and the sinks      *)
(***************************************************************************)
\* the derivation as it would be if the defaulted start time were not stored
DeriveStartNotStored(m, s, key, events, t) ==
    LET first_event == events[1]
        last_event == events[Len(events)]
        metrics == IF key \in DOMAIN m THEN m[key] ELSE DefaultMetrics
        start_time == IF key \in DOMAIN s THEN s[key] ELSE t
        s1 == s
        ts == Get(last_event, "timestamp", Nil)
    IN  IF ts = Nil THEN [starts |-> s1, raised |-> TRUE]
        ELSE
            LET last_activity == ParseTs(ts[1])
                duration_seconds == last_activity - start_time
            IN  [starts |-> s1, raised |-> FALSE,
                 purchase_value |-> metrics.purchase_value,
                 record |->
                    [session_id |-> key,
                     user_id |-> Get(first_event, "user_id", Nil),
                     start_time |-> start_time,
                     last_activity |-> last_activity,
                     device_type |-> Get(first_event, "device_type", Some("desktop")),
                     browser |-> Get(first_event, "browser", Some("Unknown")),
                     page_views |-> metrics.page_views,
                     products_viewed |-> Cardinality(metrics.products_viewed),
                     unique_products_viewed |-> Cardinality(metrics.products_viewed),
                     searches |-> metrics.searches,
                     cart_additions |-> metrics.cart_additions,
                     cart_removals |-> metrics.cart_removals,
                     cart_value |-> metrics.cart_value,
                     is_converted |-> metrics.is_converted,
                     purchase_value |-> metrics.purchase_value,
                     session_duration_seconds |-> duration_seconds,
                     bounce |-> (metrics.page_views <= 1 /\ duration_seconds < 30),
                     is_cart_abandoned |-> metrics.is_cart_abandoned,
                     abandonment_reason |-> metrics.abandonment_reason,
                     time_in_cart_seconds |-> metrics.time_in_cart_seconds,
                     checkout_initiated |-> metrics.checkout_initiated,
                     persona |-> metrics.persona,
                     updated_at |-> t]]

\* Lines 113-139 and 203-229: the snapshot derived for `key` from the
\* window's events, the accumulators m and the start times s, at clock
\* reading t.  raised = TRUE when the derivation raises (the last event has
\* no timestamp); the start time defaulted to t is stored before that.  The
\* float ratios (avg_time_per_page, engagement_score, ...) are computed
\* with guarded divisions that cannot raise and are left out of the record.
Derive(m, s, key, events, t) ==
    LET first_event == events[1]
        last_event == events[Len(events)]
        metrics == IF key \in DOMAIN m THEN m[key] ELSE DefaultMetrics
        start_time == IF key \in DOMAIN s THEN s[key] ELSE t
        s1 == IF key \in DOMAIN s THEN s ELSE Put(s, key, t)
        ts == Get(last_event, "timestamp", Nil)
    IN  IF ts = Nil THEN [starts |-> s1, raised |-> TRUE]
        ELSE
            LET last_activity == ParseTs(ts[1])
                duration_seconds == last_activity - start_time
            IN  [starts |-> s1, raised |-> FALSE,
                 purchase_value |-> metrics.purchase_value,
                 record |->
                    [session_id |-> key,
                     user_id |-> Get(first_event, "user_id", Nil),
                     start_time |-> start_time,
                     last_activity |-> last_activity,
                     device_type |-> Get(first_event, "device_type", Some("desktop")),
                     browser |-> Get(first_event, "browser", Some("Unknown")),
                     page_views |-> metrics.page_views,
                     products_viewed |-> Cardinality(metrics.products_viewed),
                     unique_products_viewed |-> Cardinality(metrics.products_viewed),
                     searches |-> metrics.searches,
                     cart_additions |-> metrics.cart_additions,
                     cart_removals |-> metrics.cart_removals,
                     cart_value |-> metrics.cart_value,
                     is_converted |-> metrics.is_converted,
                     purchase_value |-> metrics.purchase_value,
                     session_duration_seconds |-> duration_seconds,
                     bounce |-> (metrics.page_views <= 1 /\ duration_seconds < 30),
                     is_cart_abandoned |-> metrics.is_cart_abandoned,
                     abandonment_reason |-> metrics.abandonment_reason,
                     time_in_cart_seconds |-> metrics.time_in_cart_seconds,
                     checkout_initiated |-> metrics.checkout_initiated,
                     persona |-> metrics.persona,
                     updated_at |-> t]]

\* What the scoring endpoint can answer.  A decoded body is falsy (null, {},
\* [], 0), a truthy value that is no object (a list, a string, a number), or
\* an object holding some of the expected keys.
Bodies ==
    {[type |-> "falsy"], [type |-> "nonobject"],
     [type |-> "object", risk_level |-> Some("LOW"),
      abandonment_probability |-> Some(10)],
     [type |-> "object", risk_level |-> Some("HIGH"),
      abandonment_probability |-> Some(90)],
     [type |-> "object", risk_level |-> Some("HIGH")],
     [type |-> "object", abandonment_probability |-> Some(10)]}

Responses ==
    {[kind |-> "timeout"], [kind |-> "non200"], [kind |-> "undecodable"]}
    \cup {[kind |-> "json", body |-> b] : b \in Bodies}

\* call_ml_api as it would be without the cart_value test
PostsAlways(session_record) == TRUE

\* call_ml_api, lines 16-19: whether the call gets as far as requests.post
Posts(session_record) == ~(session_record.cart_value <= 0)

\* MLInferenceService.call_ml_api: Nil for None, else the decoded body
call_ml_api(session_record, resp) ==
    IF ~Posts(session_record) THEN Nil
    ELSE IF resp.kind = "json" THEN Some(resp.body)
    ELSE Nil

\* `if prediction:`
TruthyPrediction(prediction) ==
    prediction # Nil /\ prediction[1].type # "falsy"

\* The key of table ml_predictions: prediction_id, which the insert does not
\* supply and the table generates, one per inserted row.
ml_predictions_key(preds) == Len(preds) + 1

\* MLInferenceService.log_prediction: the ml_predictions rows it leaves.  The
\* statement's ON CONFLICT DO NOTHING never finds a conflict on a generated
\* key.  It
\* never raises: a closed or dropped connection, a result that is no object
\* and a failed insert are all caught, and so is a failed rollback.  The row
\* is committed before the log line that multiplies the probability.
log_prediction(conn, preds, record, result, out) ==
    IF conn # "open" \/ result.type # "object" \/ out # "ok" THEN preds
    ELSE Append(preds,
                [prediction_id |-> ml_predictions_key(preds),
                 session_id |-> record.session_id,
                 abandonment_probability |-> Get(result, "abandonment_probability", Nil),
                 risk_level |-> Get(result, "risk_level", Nil),
                 cart_value |-> record.cart_value])

\* lines 194-199: the high-risk test and its warning raise on a prediction
\* that is no object, or that is high risk without a probability
RiskWarningRaises(result) ==
    \/ result.type # "object"
    \/ /\ Get(result, "risk_level", Nil) \in {Some("HIGH"), Some("CRITICAL")}
       /\ Get(result, "abandonment_probability", Nil) = Nil

\* The key of table user_sessions: one row per session_id.
user_sessions_key(row) == row.session_id

\* whether inserting `record` conflicts with a row of the table
Conflicts(rows, record) ==
    \E i \in 1..Len(rows) : user_sessions_key(rows[i]) = user_sessions_key(record)

\* sink_to_postgres as it would be on a table without the key
SinkAppends(conn, rows, record, out) ==
    IF conn = "open" THEN
        IF out = "ok"
        THEN [status |-> "ok", rows |-> Append(rows, record)]
        ELSE [status |-> "failed", rows |-> rows]
    ELSE [status |-> "raised", rows |-> rows]

\* sink_to_postgres as it would be with ON CONFLICT ... DO UPDATE
SinkOverwrites(conn, rows, record, out) ==
    IF conn = "open" THEN
        IF out = "ok"
        THEN [status |-> "ok",
              rows |-> IF Conflicts(rows, record)
                       THEN [i \in 1..Len(rows) |->
                               IF user_sessions_key(rows[i]) = user_sessions_key(record)
                               THEN record ELSE rows[i]]
                       ELSE Append(rows, record)]
        ELSE [status |-> "failed", rows |-> rows]
    ELSE [status |-> "raised", rows |-> rows]

\* StreamProcessor.sink_to_postgres('user_sessions', [record]).  On an open
\* connection the insert is made (ON CONFLICT DO NOTHING on session_id) or
\* fails and is rolled back; on a dropped or closed connection the statement
\* raises and so does the rollback in the handler, which is not guarded.
sink_to_postgres(conn, rows, record, out) ==
    IF conn = "open" THEN
        IF out = "ok"
        THEN [status |-> "ok",
              rows |-> IF Conflicts(rows, record) THEN rows
                       ELSE Append(rows, record)]
        ELSE [status |-> "failed", rows |-> rows]
    ELSE [status |-> "raised", rows |-> rows]

\* StreamProcessor.sink_to_redis(key, value): every error is caught
sink_to_redis(client, store, key, value, out) ==
    IF client = "open" /\ out = "ok"
    THEN [status |-> "ok", store |-> Put(store, key, value)]
    ELSE [status |-> "failed", store |-> store]

\* f"session:{session_id}"
redis_key(session_id) == <<"session:", session_id>>

\* process_window(key, events) for a non-empty events list: what it leaves
\* in session_starts, the tables and the cache, and what the call did.
\* resp is the scoring endpoint's answer; lout, pout and rout say whether the
\* prediction insert, the snapshot insert and the cache write go through.
process_window(key, events, t, resp, lout, pout, rout) ==
    LET d == Derive(session_metrics, session_starts, key, events, t)
        same == [starts |-> d.starts, preds |-> ml_predictions,
                 rows |-> user_sessions, store |-> redis_store]
        none == [key |-> key, conn |-> pg_conn, requested |-> FALSE,
                 logged |-> FALSE, pg |-> "none", redis |-> "none",
                 failure |-> "none", returned |-> FALSE]
    IN  IF d.raised THEN same @@ [call |-> [none EXCEPT !.failure = "derive"]]
        ELSE
        LET prediction == IF ml_service THEN call_ml_api(d.record, resp) ELSE Nil
            requested == ml_service /\ Posts(d.record)
            scored == TruthyPrediction(prediction)
            preds == IF scored
                     THEN log_prediction(pg_conn, ml_predictions, d.record,
                                         prediction[1], lout)
                     ELSE ml_predictions
            c1 == [none EXCEPT !.requested = requested,
                               !.logged = (preds # ml_predictions)]
        IN  IF scored /\ RiskWarningRaises(prediction[1]) THEN
                [same EXCEPT !.preds = preds]
                    @@ [call |-> [c1 EXCEPT !.failure = "scoring"]]
            ELSE IF d.purchase_value = Nil THEN
                \* round(None, 2) while the session_record is built
                [same EXCEPT !.preds = preds]
                    @@ [call |-> [c1 EXCEPT !.failure = "record"]]
            ELSE
            LET pg == sink_to_postgres(pg_conn, user_sessions, d.record, pout)
            IN  IF pg.status = "raised" THEN
                    [same EXCEPT !.preds = preds]
                        @@ [call |-> [c1 EXCEPT !.pg = "raised",
                                                 !.failure = "rollback"]]
                ELSE
                LET rd == sink_to_redis(redis_client, redis_store,
                                        redis_key(d.record.session_id), d.record, rout)
                IN  [starts |-> d.starts, preds |-> preds, rows |-> pg.rows,
                     store |-> rd.store,
                     call |-> [c1 EXCEPT !.pg = pg.status, !.redis = rd.status,
                                          !.returned = TRUE]]

(***************************************************************************)
(* The pipeline: consumed events, the clock, and the aggregation loop      *)
(***************************************************************************)
MaxWindows == 2

MaxConsumed == 2

PipeEvents ==
    {[session_id |-> Some(sid), event_type |-> Some("session_start"),
      timestamp |-> Some(Z(t)), persona |-> Some("intent_buyer")] :
        sid \in Sessions, t \in {0, 2}}
    \cup {[session_id |-> Some(sid), event_type |-> Some("page_view"),
           timestamp |-> Some(Z(t))] : sid \in Sessions, t \in {1, 3}}
    \cup {[session_id |-> Some(sid), event_type |-> Some("add_to_cart"),
           timestamp |-> Some(Z(2)), price |-> Some(2), quantity |-> Some(1)] :
        sid \in Sessions}

\* SessionAggregator._extract_key
extract_key(e) == Get(e, "session_id", Some("unknown"))[1]

\* the loop as it would be without `if result:`
ConsumeAlwaysAdds(e) ==
    /\ "timestamp" \in DOMAIN e /\ e.timestamp # Nil => ParseTs(e.timestamp[1]) <= now
    /\ LET r == process_event(session_metrics, session_starts, e)
       IN  /\ session_metrics' = r.metrics
           /\ session_starts' = r.starts
           /\ data' = add_event(data, extract_key(e), e, now)
    /\ nfolds' = nfolds + 1
    /\ UNCHANGED <<extVars, now, inserted, lastGet, allKeys, concVars, lifeVars, aggVars>>

\* _consumer_loop, one record: process_event, and add_event when it returned
\* the event.  The producer stamps an event before it sends it, so a consumed
\* event's timestamp is never ahead of the clock.
ConsumeRecord(e) ==
    /\ "timestamp" \in DOMAIN e /\ e.timestamp # Nil => ParseTs(e.timestamp[1]) <= now
    /\ LET r == process_event(session_metrics, session_starts, e)
       IN  /\ session_metrics' = r.metrics
           /\ session_starts' = r.starts
           /\ data' = IF r.ret # Nil
                      THEN add_event(data, extract_key(e), e, now)
                      ELSE data
    /\ nfolds' = nfolds + 1
    /\ UNCHANGED <<extVars, now, inserted, lastGet, allKeys, concVars, lifeVars, aggVars>>

\* one record of a run that consumes at most MaxConsumed of them
Consume(e) == nfolds < MaxConsumed /\ ConsumeRecord(e)

\* SessionAggregator.start, after super().start() returned
SetMlService ==
    /\ ~ml_service
    /\ pg_conn # "none"
    /\ ml_service' = TRUE
    /\ UNCHANGED <<extVars, user_sessions, ml_predictions, redis_store, aggKeys, lastCall,
                   prevDur, lastDur, nwindows, foldVars, winVars, concVars, lifeVars>>

\* the server or the network drops the relational connection
ConnDrop ==
    /\ pg_conn = "open"
    /\ pg_conn' = "dropped"
    /\ UNCHANGED <<extVars, running, redis_client, threads, callpc,
                   foldVars, winVars, concVars, aggVars>>

\* _aggregation_loop: a tick begins with get_all_keys().  The keys are
\* visited in the dict's order; the model allows any order.
AggStart ==
    /\ aggKeys = Nil
    /\ running
    /\ aggKeys' = Some(get_all_keys(data))
    /\ UNCHANGED <<extVars, ml_service, user_sessions, ml_predictions, redis_store, lastCall,
                   prevDur, lastDur, nwindows, foldVars, winVars, concVars, lifeVars>>

\* whether a process_window call for `key` would post to the scoring endpoint
Requested(key) ==
    /\ ml_service
    /\ key \in DOMAIN session_metrics
    /\ Posts(session_metrics[key])

\* the loop as it would be if it dropped the accumulator of an emptied key
AggKeyEvicts(key, resp, lout, pout, rout) ==
    /\ aggKeys # Nil /\ key \in aggKeys[1]
    /\ nwindows < MaxWindows
    \* the endpoint answers only when asked, and the prediction insert is
    \* made only for an object
    /\ Requested(key) \/ resp = [kind |-> "timeout"]
    /\ (resp.kind = "json" /\ resp.body.type = "object") \/ lout = "ok"
    /\ LET w == get_window_data(data, key, now)
       IN  /\ data' = w.data
           /\ IF w.events = <<>>
              THEN UNCHANGED <<session_starts, ml_predictions, user_sessions,
                               redis_store, lastCall, prevDur, lastDur, nwindows>>
              ELSE LET r == process_window(key, w.events, now, resp, lout, pout, rout)
                       emitted == r.call.returned
                       dur == IF emitted
                              THEN Derive(session_metrics, session_starts, key,
                                          w.events, now).record.session_duration_seconds
                              ELSE 0
                   IN  /\ session_starts' = r.starts
                       /\ ml_predictions' = r.preds
                       /\ user_sessions' = r.rows
                       /\ redis_store' = r.store
                       /\ lastCall' = Some(r.call)
                       /\ nwindows' = nwindows + 1
                       /\ IF emitted
                          THEN /\ lastDur' = Put(lastDur, key, dur)
                               /\ prevDur' = IF key \in DOMAIN lastDur
                                             THEN Put(prevDur, key, lastDur[key])
                                             ELSE prevDur
                          ELSE UNCHANGED <<prevDur, lastDur>>
    /\ aggKeys' = Some(aggKeys[1] \ {key})
    /\ session_metrics' =
          IF get_window_data(data, key, now).events = <<>>
          THEN [k \in DOMAIN session_metrics \ {key} |-> session_metrics[k]]
          ELSE session_metrics
    /\ UNCHANGED <<extVars, nfolds, now, inserted, lastGet, allKeys,
                   ml_service, concVars, lifeVars>>

\* _aggregation_loop: the tick's next key: get_window_data, and
\* process_window when the window is not empty
AggKey(key, resp, lout, pout, rout) ==
    /\ aggKeys # Nil /\ key \in aggKeys[1]
    /\ nwindows < MaxWindows
    \* the endpoint answers only when asked, and the prediction insert is
    \* made only for an object
    /\ Requested(key) \/ resp = [kind |-> "timeout"]
    /\ (resp.kind = "json" /\ resp.body.type = "object") \/ lout = "ok"
    /\ LET w == get_window_data(data, key, now)
       IN  /\ data' = w.data
           /\ IF w.events = <<>>
              THEN UNCHANGED <<session_starts, ml_predictions, user_sessions,
                               redis_store, lastCall, prevDur, lastDur, nwindows>>
              ELSE LET r == process_window(key, w.events, now, resp, lout, pout, rout)
                       emitted == r.call.returned
                       dur == IF emitted
                              THEN Derive(session_metrics, session_starts, key,
                                          w.events, now).record.session_duration_seconds
                              ELSE 0
                   IN  /\ session_starts' = r.starts
                       /\ ml_predictions' = r.preds
                       /\ user_sessions' = r.rows
                       /\ redis_store' = r.store
                       /\ lastCall' = Some(r.call)
                       /\ nwindows' = nwindows + 1
                       /\ IF emitted
                          THEN /\ lastDur' = Put(lastDur, key, dur)
                               /\ prevDur' = IF key \in DOMAIN lastDur
                                             THEN Put(prevDur, key, lastDur[key])
                                             ELSE prevDur
                          ELSE UNCHANGED <<prevDur, lastDur>>
    /\ aggKeys' = Some(aggKeys[1] \ {key})
    /\ UNCHANGED <<extVars, session_metrics, nfolds, now, inserted, lastGet, allKeys,
                   ml_service, concVars, lifeVars>>

\* _aggregation_loop: the tick is over, time.sleep(self.window.slide)
AggSleep ==
    /\ aggKeys = Some({})
    /\ aggKeys' = Nil
    /\ UNCHANGED <<extVars, ml_service, user_sessions, ml_predictions, redis_store, lastCall,
                   prevDur, lastDur, nwindows, foldVars, winVars, concVars, lifeVars>>

\* the processor after StreamProcessor.start(): running, both connections
\* open, the threads spawned
Started ==
    /\ running = TRUE
    /\ pg_conn = "open"
    /\ redis_client = "open"
    /\ threads = Spawned
    /\ callpc = [c \in Callers |-> "idle"]

Init == FoldIdle /\ WinIdle /\ ConcIdle /\ Started /\ AggIdle /\ ExtIdle

\* The pipeline over time: events with their own timestamps arrive in any
\* order while the clock advances; ml_service is still None and both sinks
\* accept every write.
Next ==
    \/ \E e \in PipeEvents : Consume(e)
    \/ Tick
    \/ AggStart
    \/ \E key \in Sessions : AggKey(key, [kind |-> "timeout"], "ok", "ok", "ok")
    \/ AggSleep

Spec == Init /\ [][Next]_vars

\* the events of the scoring and sink specification
SinkEvents ==
    {[session_id |-> Some(sid), event_type |-> Some("add_to_cart"),
      timestamp |-> Some(Z(0)), price |-> Some(2), quantity |-> Some(1)] :
        sid \in Sessions}
    \cup {[session_id |-> Some("s1"), event_type |-> Some("page_view"),
           timestamp |-> Some(Z(0))],
          [session_id |-> Some("s2"), event_type |-> Some("add_to_cart"),
           timestamp |-> Some(Z(0)), price |-> Some(-1), quantity |-> Some(1)]}

InitSinks == Init

\* The pipeline at one clock reading: the scoring endpoint answers in every
\* way it can, either sink may refuse a write, and the relational connection
\* may drop.
NextSinks ==
    \/ \E e \in SinkEvents : Consume(e)
    \/ SetMlService
    \/ ConnDrop
    \/ AggStart
    \/ \E key \in Sessions, resp \in Responses, lout, pout, rout \in {"ok", "fail"} :
           AggKey(key, resp, lout, pout, rout)
    \/ AggSleep

SpecSinks == InitSinks /\ [][NextSinks]_vars

(***************************************************************************)
(* C8: every process_window call on a non-empty window, made while the     *)
(* relational connection is open, hands the snapshot to both sinks         *)
(* whatever the scoring outcome.                                           *)
(***************************************************************************)
C8_SnapshotWrittenWhateverScoring ==
    lastCall # Nil /\ lastCall[1].conn = "open" /\ lastCall[1].failure # "derive"
        => lastCall[1].pg # "none" /\ lastCall[1].redis # "none"

(***************************************************************************)
(* C9: when the relational write of a snapshot fails, with or without the  *)
(* rollback failing too, the cache write for the snapshot is attempted.    *)
(***************************************************************************)
C9_CacheWriteAttemptedAfterRelationalFailure ==
    lastCall # Nil /\ lastCall[1].pg \in {"failed", "raised"}
        => lastCall[1].redis # "none"

(***************************************************************************)
(* C10: for each key, session_duration_seconds of successive emitted       *)
(* snapshots is non-decreasing.                                            *)
(***************************************************************************)
C10_DurationNonDecreasing ==
    \A k \in DOMAIN prevDur : prevDur[k] <= lastDur[k]

(***************************************************************************)
(* C14: user_sessions holds at most one row per session_id; a row, once    *)
(* inserted, is never changed or removed, and it is the snapshot of the    *)
(* first flush the relational sink accepted for the session; the cache key *)
(* session:{session_id} holds the snapshot of the latest flush the cache   *)
(* accepted.                                                               *)
(***************************************************************************)
\* the snapshot the next process_window call for `key` derives
Snapshot(key) ==
    Derive(session_metrics, session_starts, key,
           get_window_data(data, key, now).events, now).record

SameInsert(r1, r2) ==
    [r1 EXCEPT !.prediction_id = 0] = [r2 EXCEPT !.prediction_id = 0]

C16_NoScoringForEmptyCart ==
    /\ [](\A i \in 1..Len(ml_predictions) : ml_predictions[i].cart_value > 0)
    /\ [][nwindows' # nwindows /\ lastCall'[1].failure # "derive"
             /\ Snapshot(lastCall'[1].key).cart_value <= 0
            => /\ ~lastCall'[1].requested
               /\ ~lastCall'[1].logged
               /\ ml_predictions' = ml_predictions]_vars

\* with the scoring service initialised, a session whose cart_value is
\* negative was flushed to both sinks without a request
C16_Witness ==
    /\ ml_service
    /\ lastCall # Nil
    /\ session_metrics[lastCall[1].key].cart_value < 0
    /\ ~lastCall[1].requested
    /\ lastCall[1].pg = "ok" /\ lastCall[1].redis = "ok"

(***************************************************************************)
(* C17, as claimed: with ml_service None, process_window on the same key,  *)
(* events, accumulators and start times returns the same snapshot at any   *)
(* two clock readings, and leaves the start times as they were.            *)
(***************************************************************************)
\* the events a tick at this clock reading hands to process_window
WindowEvents(key) ==
    IF key \in DOMAIN data THEN get_window_data(data, key, now).events ELSE <<>>

C17_ProcessWindowDeterministic ==
    \A key \in Sessions :
        WindowEvents(key) # <<>> =>
            \A t2 \in now..MaxTime :
                LET d1 == Derive(session_metrics, session_starts, key,
                                 WindowEvents(key), now)
                    d2 == Derive(session_metrics, session_starts, key,
                                 WindowEvents(key), t2)
                IN  d1.record = d2.record /\ d1.starts = session_starts

(***************************************************************************)
(* C17, amended: the two snapshots agree in every field but updated_at,    *)
(* the clock reading of the call, provided the key has a start time; such  *)
(* a call leaves the start times as they were.  For a key without one the  *)
(* first call stores its own clock reading as the start time, and a second *)
(* call made after it agrees with the first in every field but updated_at. *)
(***************************************************************************)
SameButUpdatedAt(r1, r2) ==
    [r1 EXCEPT !.updated_at = 0] = [r2 EXCEPT !.updated_at = 0]

C17_DeterministicButClock ==
    \A key \in Sessions :
        WindowEvents(key) # <<>> =>
            \A t2 \in now..MaxTime :
                LET d1 == Derive(session_metrics, session_starts, key,
                                 WindowEvents(key), now)
                    d2 == Derive(session_metrics, d1.starts, key,
                                 WindowEvents(key), t2)
                IN  /\ SameButUpdatedAt(d1.record, d2.record)
                    /\ d2.starts = d1.starts
                    /\ d1.starts = IF key \in DOMAIN session_starts
                                   THEN session_starts
                                   ELSE Put(session_starts, key, now)

\* s1 was aggregated twice at different clock readings with nothing
\* consumed in between: the row of the first call and the cached snapshot
\* of the second differ in updated_at only
C17_Witness ==
    /\ nwindows = 2
    /\ lastCall # Nil /\ lastCall[1].key = "s1" /\ lastCall[1].returned
    /\ Len(user_sessions) = 1
    /\ user_sessions[1].session_id = "s1"
    /\ redis_store[redis_key("s1")] # user_sessions[1]
    /\ SameButUpdatedAt(redis_store[redis_key("s1")], user_sessions[1])

(***************************************************************************)
(* C18: a tick that finds a key's window empty emits no snapshot for it,   *)
(* writes to no sink and leaves every accumulator and start time as it     *)
(* was; no step removes an accumulator or lowers its counters, so a later  *)
(* event of the session is folded onto the values accumulated before.      *)
(***************************************************************************)
\* the key the aggregation loop visits in this step, if it visits one
Visited ==
    IF aggKeys # Nil /\ aggKeys' # Nil THEN aggKeys[1] \ aggKeys'[1] ELSE {}

C18_EmptyWindowSkipped ==
    [][/\ \A key \in Visited :
             WindowEvents(key) = <<>>
                 => /\ <<user_sessions, redis_store, ml_predictions>>'
                          = <<user_sessions, redis_store, ml_predictions>>
                    /\ <<nwindows, lastCall>>' = <<nwindows, lastCall>>
                    /\ <<session_metrics, session_starts>>'
                          = <<session_metrics, session_starts>>
       /\ \A k \in DOMAIN session_metrics :
             /\ k \in DOMAIN session_metrics'
             /\ session_metrics'[k].page_views >= session_metrics[k].page_views
             /\ session_metrics'[k].cart_additions >= session_metrics[k].cart_additions]_vars

\* s1 was aggregated, its window then emptied by expiry, and an event that
\* arrived afterwards was folded onto the earlier count and aggregated
C18_Witness ==
    /\ nwindows = 2
    /\ lastCall # Nil /\ lastCall[1].key = "s1" /\ lastCall[1].returned
    /\ session_metrics["s1"].page_views = 2
    /\ Len(user_sessions) = 1 /\ user_sessions[1].page_views = 1
    /\ redis_store[redis_key("s1")].page_views = 2
    /\ Len(WindowEvents("s1")) = 1

(***************************************************************************)
(* The consumer loop over records with and without a session_id            *)
(***************************************************************************)
\* events whose session_id is absent or empty; each carries a user_id
SessionlessEvents ==
    {[user_id |-> Some(42), event_type |-> Some(ty), timestamp |-> Some(Z(0))] :
        ty \in {"page_view", "session_start"}}
    \cup {[session_id |-> Some(""), user_id |-> Some(42),
           event_type |-> Some("add_to_cart"), timestamp |-> Some(Z(0)),
           price |-> Some(2), quantity |-> Some(1)]}

InitConsume == Init

NextConsume ==
    \/ \E e \in SessionlessEvents \cup PipeEvents : Consume(e)
    \/ Tick

SpecConsume == InitConsume /\ [][NextConsume]_vars

(***************************************************************************)
(* C19: for an event whose session_id is absent or empty, process_event    *)
(* returns None with every accumulator and start time as before, and the   *)
(* consumer loop's step for it leaves the window store as it was: nothing  *)
(* is appended under any key, the user_id and 'unknown' included.          *)
(***************************************************************************)
C19_SessionlessEventDropped ==
    /\ [](\A e \in SessionlessEvents :
            process_event(session_metrics, session_starts, e)
                = [metrics |-> session_metrics, starts |-> session_starts,
                   ret |-> Nil])
    /\ [](DOMAIN data \subseteq Sessions)
    /\ [][\A e \in SessionlessEvents :
             Consume(e) => UNCHANGED <<session_metrics, session_starts, data>>]_vars

\* two records were consumed, the first or the second of them without a
\* session_id: only the other was folded and appended
C19_Witness ==
    /\ nfolds = 2
    /\ DOMAIN session_metrics = {"s1"}
    /\ DOMAIN data = {"s1"}
    /\ Len(data["s1"]) = 1

(***************************************************************************)
(* StateStore: get, put, update and delete, each under the store's lock    *)
(***************************************************************************)
MaxStoreOps == 4

\* the values put() is called with
PutValues == {0, 2}

\* the calls made: update is always called with lambda x: (x or 0) + 1
StoreCalls ==
    {[op |-> o, key |-> k, value |-> 0] : o \in {"get", "update", "delete"}, k \in StoreKeys}
    \cup {[op |-> "put", key |-> k, value |-> v] : k \in StoreKeys, v \in PutValues}

\* the update function of the module's own test: lambda x: (x or 0) + 1
update_fn(current) == IF TruthyInt(current) THEN current[1] + 1 ELSE 1

\* self.state.get(key, default)
StateGet(key, default) == IF key \in DOMAIN state THEN Some(state[key]) ELSE default

\* a thread calls one of the four methods; speak records how many calls are
\* in flight at once
StoreCall(t, call) ==
    /\ nstore < MaxStoreOps
    /\ sop[t] = Nil
    /\ sop' = [sop EXCEPT ![t] = Some([call |-> call, pc |-> "wait"])]
    /\ nstore' = nstore + 1
    /\ speak' = Max(speak, Cardinality({u \in StoreThreads : sop'[u] # Nil}))
    /\ UNCHANGED <<state, lock, scur, sbase, supdates,
                   foldVars, winVars, concVars, lifeVars, aggVars, loopVars>>

\* a store whose methods would enter their bodies without waiting for the lock
StoreAcquireUnlocked(t) ==
    /\ sop[t] # Nil /\ sop[t][1].pc = "wait"
    /\ lock' = Some(t)
    /\ sop' = [sop EXCEPT ![t] = Some([sop[t][1] EXCEPT !.pc = "body"])]
    /\ UNCHANGED <<state, scur, sbase, supdates, nstore, speak,
                   foldVars, winVars, concVars, lifeVars, aggVars, loopVars>>

\* `with self.lock:` of any of the four methods: the call enters its body
\* once the lock is free, and holds it
StoreAcquire(t) ==
    /\ sop[t] # Nil /\ sop[t][1].pc = "wait"
    /\ lock = Nil
    /\ lock' = Some(t)
    /\ sop' = [sop EXCEPT ![t] = Some([sop[t][1] EXCEPT !.pc = "body"])]
    /\ UNCHANGED <<state, scur, sbase, supdates, nstore, speak,
                   foldVars, winVars, concVars, lifeVars, aggVars, loopVars>>

\* thread t is inside `call`'s method at place pc
StoreAt(t, op, pc) == sop[t] # Nil /\ sop[t][1].call.op = op /\ sop[t][1].pc = pc

StoreMove(t, pc) == sop' = [sop EXCEPT ![t] = Some([sop[t][1] EXCEPT !.pc = pc])]

\* get: return self.state.get(key, default)
StoreGet(t) ==
    /\ StoreAt(t, "get", "body")
    /\ scur' = [scur EXCEPT ![t] = StateGet(sop[t][1].call.key, Nil)]
    /\ StoreMove(t, "exit")
    /\ UNCHANGED <<state, lock, sbase, supdates, nstore, speak,
                   foldVars, winVars, concVars, lifeVars, aggVars, loopVars>>

\* put: self.state[key] = value
StorePut(t) ==
    /\ StoreAt(t, "put", "body")
    /\ LET c == sop[t][1].call
       IN  /\ state' = Put(state, c.key, c.value)
           /\ sbase' = [sbase EXCEPT ![c.key] = c.value]
           /\ supdates' = [supdates EXCEPT ![c.key] = 0]
    /\ StoreMove(t, "exit")
    /\ UNCHANGED <<lock, scur, nstore, speak,
                   foldVars, winVars, concVars, lifeVars, aggVars, loopVars>>

\* update: current = self.state.get(key)
StoreUpdateRead(t) ==
    /\ StoreAt(t, "update", "body")
    /\ scur' = [scur EXCEPT ![t] = StateGet(sop[t][1].call.key, Nil)]
    /\ StoreMove(t, "write")
    /\ UNCHANGED <<state, lock, sbase, supdates, nstore, speak,
                   foldVars, winVars, concVars, lifeVars, aggVars, loopVars>>

\* update: self.state[key] = update_fn(current)
StoreUpdateWrite(t) ==
    /\ StoreAt(t, "update", "write")
    /\ LET c == sop[t][1].call
       IN  /\ state' = Put(state, c.key, update_fn(scur[t]))
           /\ supdates' = [supdates EXCEPT ![c.key] = @ + 1]
    /\ StoreMove(t, "exit")
    /\ UNCHANGED <<lock, scur, sbase, nstore, speak,
                   foldVars, winVars, concVars, lifeVars, aggVars, loopVars>>

\* delete: self.state.pop(key, None)
StoreDelete(t) ==
    /\ StoreAt(t, "delete", "body")
    /\ LET c == sop[t][1].call
       IN  /\ state' = [k \in DOMAIN state \ {c.key} |-> state[k]]
           /\ sbase' = [sbase EXCEPT ![c.key] = 0]
           /\ supdates' = [supdates EXCEPT ![c.key] = 0]
    /\ StoreMove(t, "exit")
    /\ UNCHANGED <<lock, scur, nstore, speak,
                   foldVars, winVars, concVars, lifeVars, aggVars, loopVars>>

\* the end of the with block: the lock is released and the call returns
StoreExit(t) ==
    /\ sop[t] # Nil /\ sop[t][1].pc = "exit"
    /\ lock' = Nil
    /\ sop' = [sop EXCEPT ![t] = Nil]
    /\ UNCHANGED <<state, scur, sbase, supdates, nstore, speak,
                   foldVars, winVars, concVars, lifeVars, aggVars, loopVars>>

InitStore == FoldIdle /\ WinIdle /\ ConcIdle /\ LifeIdle /\ AggIdle /\ ExtIdle

NextStore ==
    \/ \E t \in StoreThreads, call \in StoreCalls : StoreCall(t, call)
    \/ \E t \in StoreThreads : StoreAcquire(t)
    \/ \E t \in StoreThreads : StoreGet(t)
    \/ \E t \in StoreThreads : StorePut(t)
    \/ \E t \in StoreThreads : StoreUpdateRead(t)
    \/ \E t \in StoreThreads : StoreUpdateWrite(t)
    \/ \E t \in StoreThreads : StoreDelete(t)
    \/ \E t \in StoreThreads : StoreExit(t)

SpecStore == InitStore /\ [][NextStore]_vars

(***************************************************************************)
(* C21: update is an atomic read-modify-write: the assignment of every     *)
(* update call stores fn of the value the key holds at that moment (None   *)
(* if absent), so a key's value is the last put value (0 if absent or      *)
(* deleted) plus the number of update calls completed since; and a delete  *)
(* of an absent key changes nothing.                                       *)
(***************************************************************************)
C21_UpdateAtomic ==
    /\ [](\A k \in StoreKeys :
            StateGet(k, Some(0))[1] = sbase[k] + supdates[k])
    /\ [][\A t \in StoreThreads :
             /\ StoreUpdateWrite(t)
                   => LET k == sop[t][1].call.key
                      IN  state' = Put(state, k, update_fn(StateGet(k, Nil)))
             /\ StoreDelete(t) /\ sop[t][1].call.key \notin DOMAIN state
                   => state' = state]_vars

\* three update calls on the absent key, all three in flight at once, have
\* returned and left the value 3
C21_Witness ==
    /\ speak = 3
    /\ \A t \in StoreThreads : sop[t] = Nil
    /\ supdates["counter"] = 3
    /\ sbase["counter"] = 0
    /\ state["counter"] = 3
    /\ nstore = 3

(***************************************************************************)
(* End-to-end scenario A: one session's events, folded in order            *)
(***************************************************************************)
ScenarioA ==
    <<[session_id |-> Some("s1"), event_type |-> Some("session_start"),
       timestamp |-> Some(Z(0)), persona |-> Some("intent_buyer")],
      [session_id |-> Some("s1"), event_type |-> Some("page_view"),
       timestamp |-> Some(Z(0))],
      [session_id |-> Some("s1"), event_type |-> Some("product_view"),
       timestamp |-> Some(Z(0)), product_id |-> Some(5), price |-> Some(50)],
      [session_id |-> Some("s1"), event_type |-> Some("add_to_cart"),
       timestamp |-> Some(Z(1)), product_id |-> Some(5), price |-> Some(50),
       quantity |-> Some(1)],
      [session_id |-> Some("s1"), event_type |-> Some("checkout_initiated"),
       timestamp |-> Some(Z(1))],
      [session_id |-> Some("s1"), event_type |-> Some("purchase"),
       timestamp |-> Some(Z(1)), cart_value |-> Some(50)]>>

\* the consumer loop takes the scenario's next record
ScenarioConsume ==
    /\ nfolds < Len(ScenarioA)
    /\ ConsumeRecord(ScenarioA[nfolds + 1])

InitScenario == Init

\* the records arrive in order while the clock advances and the aggregation
\* loop ticks; ml_service is still None and both sinks accept every write
NextScenario ==
    \/ ScenarioConsume
    \/ Tick
    \/ AggStart
    \/ AggKey("s1", [kind |-> "timeout"], "ok", "ok", "ok")
    \/ AggSleep

SpecScenario == InitScenario /\ [][NextScenario]_vars

(***************************************************************************)
(* C22: once the six events of scenario A have been folded in order, an    *)
(* aggregation tick that emits the session's snapshot emits page_views=1,  *)
(* products_viewed=1, cart_additions=1, checkout_initiated=true,           *)
(* is_converted=true, purchase_value=50 and cart_value=50.                 *)
(***************************************************************************)
C22_ScenarioASnapshot ==
    [][/\ nfolds = Len(ScenarioA)
       /\ nwindows' = nwindows + 1
       /\ lastCall'[1].returned
       => LET snap == redis_store'[redis_key("s1")]
          IN  /\ snap = Snapshot("s1")
              /\ snap.page_views = 1
              /\ snap.products_viewed = 1
              /\ snap.cart_additions = 1
              /\ snap.checkout_initiated = TRUE
              /\ snap.is_converted = TRUE
              /\ snap.purchase_value = Some(50)
              /\ snap.cart_value = 50
              /\ snap.persona = Some("intent_buyer")]_vars

\* the six events were folded before the first tick, and that tick emitted
\* the snapshot to both sinks
C22_Witness ==
    /\ nfolds = Len(ScenarioA)
    /\ nwindows = 1
    /\ lastCall # Nil /\ lastCall[1].returned
    /\ Len(user_sessions) = 1 /\ user_sessions[1].cart_value = 50
    /\ redis_key("s1") \in DOMAIN redis_store

(***************************************************************************)
(* process_window run by the aggregation thread while the consumer threads *)
(* are inside process_event                                                *)
(***************************************************************************)
\* The aggregation thread calls process_window(key, events) for a key whose
\* window holds the events folded so far.  process_window takes no lock: it
\* reads the accumulator that a consumer thread may be half-way through
\* updating.  The fields are read one after another (lines 126-138); the
\* model reads them at one instant, that of the cart_value read.
RaceWindow(key) ==
    /\ nwindows < MaxWindows
    /\ cdone # <<>>
    /\ \A j \in 1..Len(cdone) : extract_key(cdone[j]) = key
    /\ LET r == process_window(key, cdone, now, [kind |-> "timeout"], "ok", "ok", "ok")
       IN  /\ session_starts' = r.starts
           /\ ml_predictions' = r.preds
           /\ user_sessions' = r.rows
           /\ redis_store' = r.store
           /\ lastCall' = Some(r.call)
    /\ nwindows' = nwindows + 1
    /\ UNCHANGED <<session_metrics, nfolds, ml_service, aggKeys, prevDur, lastDur,
                   winVars, concVars, lifeVars, extVars>>

InitRace == Init

NextRace ==
    \/ \E t \in Consumers :
          \/ \E e \in ConcEvents : ConcBegin(t, e)
          \/ ConcLoad(t)
          \/ ConcStore(t)
    \/ \E key \in Sessions : RaceWindow(key)

SpecRace == InitRace /\ [][NextRace]_vars

(***************************************************************************)
(* C23: no emitted snapshot carries a negative cart_value, whatever the    *)
(* interleaving of process_window with a consumer thread folding a         *)
(* remove_from_cart event of the same session, all prices and quantities   *)
(* being non-negative.                                                     *)
(***************************************************************************)
C23_NoNegativeCartValueEmitted ==
    /\ \A i \in 1..Len(user_sessions) : user_sessions[i].cart_value >= 0
    /\ \A k \in DOMAIN redis_store : redis_store[k].cart_value >= 0

(***************************************************************************)
(* The fold over every event type                                          *)
(***************************************************************************)
EventTypes ==
    {"session_start", "page_view", "product_view", "add_to_cart",
     "remove_from_cart", "search", "checkout_initiated", "purchase",
     "cart_abandoned", "session_end"}

\* one event of each type process_event dispatches on, and one of a type it
\* does not know (filter)
FrameEvent(sid, ty) ==
    LET base == [session_id |-> Some(sid), event_type |-> Some(ty),
                 timestamp |-> Some(Z(1))]
    IN  IF ty = "session_start" THEN base @@ [persona |-> Some("intent_buyer")]
        ELSE IF ty = "product_view" THEN base @@ [product_id |-> Some(5), price |-> Some(2)]
        ELSE IF ty \in {"add_to_cart", "remove_from_cart"}
            THEN base @@ [product_id |-> Some(5), price |-> Some(2), quantity |-> Some(1)]
        ELSE IF ty = "purchase" THEN base @@ [cart_value |-> Some(2)]
        ELSE IF ty = "cart_abandoned"
            THEN base @@ [cart_value |-> Some(2), abandonment_reason |-> Some("price"),
                          time_in_cart_seconds |-> Some(7)]
        ELSE base

FrameEvents ==
    {FrameEvent(sid, ty) : sid \in Sessions, ty \in EventTypes \cup {"filter"}}

InitFrame == InitFold

NextFrame == \E e \in FrameEvents : FoldEvent(e)

SpecFrame == InitFrame /\ [][NextFrame]_vars

\* the accumulator fields
Fields == DOMAIN DefaultMetrics

\* a session's accumulator, as its fields read before it is created
Acc(m, sid) == IF sid \in DOMAIN m THEN m[sid] ELSE DefaultMetrics

\* the fields the fold table lists for an event type
Listed(ty) ==
    IF ty = "session_start" THEN {"persona"}
    ELSE IF ty = "page_view" THEN {"page_views"}
    ELSE IF ty = "product_view" THEN {"products_viewed"}
    ELSE IF ty = "add_to_cart" THEN {"cart_additions", "cart_value"}
    ELSE IF ty = "remove_from_cart" THEN {"cart_removals", "cart_value"}
    ELSE IF ty = "search" THEN {"searches"}
    ELSE IF ty = "checkout_initiated" THEN {"checkout_initiated"}
    ELSE IF ty = "purchase" THEN {"is_converted", "purchase_value"}
    ELSE IF ty = "cart_abandoned"
        THEN {"is_cart_abandoned", "abandonment_reason", "time_in_cart_seconds"}
    ELSE {}

(***************************************************************************)
(* C24: a fold changes only the accumulator fields the fold table lists    *)
(* for its event type, for the event's session only, and only a            *)
(* session_start changes a first-seen time, that of its own session;       *)
(* session_end and an unrecognised type change no field.                   *)
(***************************************************************************)
C24_FoldFrame ==
    [][\A e \in FrameEvents :
          FoldEvent(e) =>
              LET sid == e.session_id[1]
                  ty == e.event_type[1]
              IN  /\ \A f \in Fields \ Listed(ty) :
                         Acc(session_metrics', sid)[f] = Acc(session_metrics, sid)[f]
                  /\ \A o \in Sessions \ {sid} :
                         /\ Acc(session_metrics', o) = Acc(session_metrics, o)
                         /\ (o \in DOMAIN session_metrics') = (o \in DOMAIN session_metrics)
                  /\ \A o \in Sessions :
                         o # sid \/ ty # "session_start"
                             => Get(session_starts', o, Nil) = Get(session_starts, o, Nil)]_vars

\* a purchase was folded on a session holding a cart, and left the cart,
\* while another session has an accumulator of its own
C24_Witness ==
    /\ DOMAIN session_metrics = Sessions
    /\ session_metrics["s1"].is_converted
    /\ session_metrics["s1"].cart_value = 2
    /\ session_metrics["s2"].page_views = 1

(***************************************************************************)
(* Redelivery: the source is at-least-once, so the consumer loop may be    *)
(* handed the event it has just folded a second time                       *)
(***************************************************************************)
\* one process_event call; cdone records the events folded, in order
Deliver(e) ==
    /\ nfolds < MaxFolds
    /\ LET r == process_event(session_metrics, session_starts, e)
       IN  /\ session_metrics' = r.metrics
           /\ session_starts' = r.starts
    /\ nfolds' = nfolds + 1
    /\ cdone' = Append(cdone, e)
    /\ UNCHANGED <<cev, cidx, ctmp, winVars, lifeVars, aggVars, extVars>>

InitRedeliver == InitFold

NextRedeliver == \E e \in FrameEvents : Deliver(e)

SpecRedeliver == InitRedeliver /\ [][NextRedeliver]_vars

\* the counter an event type increments, where it has one
Counter(ty) ==
    IF ty = "page_view" THEN "page_views"
    ELSE IF ty = "search" THEN "searches"
    ELSE IF ty = "add_to_cart" THEN "cart_additions"
    ELSE "cart_removals"

Counted == {"page_view", "search", "add_to_cart", "remove_from_cart"}

(***************************************************************************)
(* C25: folding again the event that was folded last leaves every          *)
(* accumulator and first-seen time as they are when the event is a         *)
(* product_view, checkout_initiated, purchase, cart_abandoned,             *)
(* session_start or session_end; each fold of a page_view, search,         *)
(* add_to_cart or remove_from_cart, a repeated one included, adds one to   *)
(* the type's counter.                                                     *)
(***************************************************************************)
C25_RedeliveryIdempotentButCounters ==
    [][\A e \in FrameEvents :
          Deliver(e) =>
              LET sid == e.session_id[1]
                  ty == e.event_type[1]
              IN  IF ty \in Counted
                  THEN session_metrics'[sid][Counter(ty)]
                           = Acc(session_metrics, sid)[Counter(ty)] + 1
                  ELSE cdone # <<>> /\ cdone[Len(cdone)] = e /\ ty \in EventTypes
                           => /\ session_metrics' = session_metrics
                              /\ session_starts' = session_starts]_vars

\* an add_to_cart was folded, then the same purchase twice in a row
C25_Witness ==
    /\ cdone = <<FrameEvent("s1", "add_to_cart"), FrameEvent("s1", "purchase"),
                 FrameEvent("s1", "purchase")>>
    /\ session_metrics["s1"].cart_additions = 1
    /\ session_metrics["s1"].purchase_value = Some(2)

(***************************************************************************)
(* _consumer_loop, record by record                                        *)
(***************************************************************************)
MaxPolls == 2

\* a record process_event folds
GoodPageView ==
    [session_id |-> Some("s1"), event_type |-> Some("page_view"),
     timestamp |-> Some(Z(0))]

\* another one
GoodAddToCart ==
    [session_id |-> Some("s2"), event_type |-> Some("add_to_cart"),
     timestamp |-> Some(Z(0)), price |-> Some(2), quantity |-> Some(1)]

\* a record process_event fails on: a session_start without a timestamp
BadSessionStart ==
    [session_id |-> Some("s1"), event_type |-> Some("session_start"),
     persona |-> Some("intent_buyer")]

\* another one: an add_to_cart whose price is null
BadAddToCart ==
    [session_id |-> Some("s2"), event_type |-> Some("add_to_cart"),
     timestamp |-> Some(Z(0)), price |-> Nil, quantity |-> Some(1)]

\* what consumer.poll() can return: the records of one partition, in order
Batches ==
    {<<>>, <<GoodPageView>>, <<BadSessionStart, GoodPageView>>,
     <<GoodAddToCart, BadAddToCart>>, <<BadAddToCart, BadSessionStart, GoodAddToCart>>}

\* `while self.running:`; on leaving, the finally block closes the consumer
ConsumerTest(c) ==
    /\ lpc[c] = "test"
    /\ lpc' = [lpc EXCEPT ![c] = IF running THEN "poll" ELSE "done"]
    /\ UNCHANGED <<batch, lseen, npolls, storeVars,
                   foldVars, winVars, concVars, lifeVars, aggVars>>

\* messages = consumer.poll(timeout_ms=1000): it returns a batch, or raises
\* and the outer handler logs, sleeps a second and goes back to the test
ConsumerPollBatch(c, msgs, pout) ==
    /\ lpc[c] = "poll"
    /\ npolls < MaxPolls
    /\ npolls' = npolls + 1
    /\ IF pout = "ok"
       THEN /\ batch' = [batch EXCEPT ![c] = msgs]
            /\ lpc' = [lpc EXCEPT ![c] = "records"]
       ELSE /\ batch' = batch
            /\ lpc' = [lpc EXCEPT ![c] = "test"]
    /\ UNCHANGED <<lseen, storeVars,
                   foldVars, winVars, concVars, lifeVars, aggVars>>

\* a loop whose handler would sit outside the for loop: a record that fails
\* would end the batch and the loop
ConsumerRecordFatal(c, aout) ==
    /\ lpc[c] = "records"
    /\ batch[c] # <<>>
    /\ LET e == Head(batch[c])
           r == process_event(session_metrics, session_starts, e)
           appended == r.ret # Nil /\ aout = "ok"
       IN  /\ session_metrics' = r.metrics
           /\ session_starts' = r.starts
           /\ data' = IF appended THEN add_event(data, extract_key(e), e, now) ELSE data
           /\ lseen' = Append(lseen, IF r.ret = Nil THEN "dropped"
                                     ELSE IF aout = "ok" THEN "appended"
                                     ELSE "append_failed")
           /\ IF appended
              THEN /\ batch' = [batch EXCEPT ![c] = Tail(@)]
                   /\ lpc' = lpc
              ELSE /\ batch' = [batch EXCEPT ![c] = <<>>]
                   /\ lpc' = [lpc EXCEPT ![c] = "done"]
    /\ UNCHANGED <<nfolds, now, inserted, lastGet, allKeys, npolls, storeVars,
                   concVars, lifeVars, aggVars>>

\* one pass of `for record in records`: process_event, and add_event when it
\* returned the event; whatever add_event raises is caught and logged inside
\* the pass, and process_event raises nothing
ConsumerRecord(c, aout) ==
    /\ lpc[c] = "records"
    /\ batch[c] # <<>>
    /\ LET e == Head(batch[c])
           r == process_event(session_metrics, session_starts, e)
           appended == r.ret # Nil /\ aout = "ok"
       IN  /\ session_metrics' = r.metrics
           /\ session_starts' = r.starts
           /\ data' = IF appended THEN add_event(data, extract_key(e), e, now) ELSE data
           /\ lseen' = Append(lseen, IF r.ret = Nil THEN "dropped"
                                     ELSE IF aout = "ok" THEN "appended"
                                     ELSE "append_failed")
    /\ batch' = [batch EXCEPT ![c] = Tail(@)]
    /\ UNCHANGED <<lpc, nfolds, now, inserted, lastGet, allKeys, npolls, storeVars,
                   concVars, lifeVars, aggVars>>

\* the batch is exhausted: back to the while test
ConsumerBatchEnd(c) ==
    /\ lpc[c] = "records"
    /\ batch[c] = <<>>
    /\ lpc' = [lpc EXCEPT ![c] = "test"]
    /\ UNCHANGED <<batch, lseen, npolls, storeVars,
                   foldVars, winVars, concVars, lifeVars, aggVars>>

\* stop(): self.running = False
StopRequested ==
    /\ running
    /\ running' = FALSE
    /\ UNCHANGED <<pg_conn, redis_client, threads, callpc, extVars,
                   foldVars, winVars, concVars, aggVars>>

InitLoop == Init

\* the steps of consumer thread c
ConsumerStep(c) ==
    \/ ConsumerTest(c)
    \/ \E msgs \in Batches, pout \in {"ok", "raise"} : ConsumerPollBatch(c, msgs, pout)
    \/ \E aout \in {"ok", "raise"} : ConsumerRecord(c, aout)
    \/ ConsumerBatchEnd(c)

NextLoop ==
    \/ \E c \in Consumers : ConsumerStep(c)
    \/ StopRequested

SpecLoop == InitLoop /\ [][NextLoop]_vars

\* every consumer thread keeps being scheduled
SpecLoopFair == SpecLoop /\ \A c \in Consumers : WF_vars(ConsumerStep(c))

(***************************************************************************)
(* C26: a consumer loop leaves only at its while test, with running false; *)
(* a record whose process_event or window append fails costs the loop      *)
(* nothing but that record: the loop stays in the batch with the remaining *)
(* records, every record of a batch is eventually taken, and the loop gets *)
(* back to the test, from where it polls again while running is true.      *)
(***************************************************************************)
C26_LoopSurvivesBadRecord ==
    /\ [][\A c \in Consumers :
             /\ lpc'[c] = "done" /\ lpc[c] # "done" => lpc[c] = "test" /\ ~running
             /\ lpc[c] = "records" /\ batch[c] # <<>>
                   => /\ lpc'[c] = "records"
                      /\ batch'[c] \in {batch[c], Tail(batch[c])}
             /\ lpc[c] = "records" /\ lpc'[c] # "records"
                   => lpc'[c] = "test" /\ batch[c] = <<>>
             /\ lpc[c] = "test" /\ running /\ lpc'[c] # "test" => lpc'[c] = "poll"]_vars
    /\ \A c \in Consumers : []<>(batch[c] = <<>> /\ lpc[c] # "records")

\* a record that failed in process_event was followed by one that was
\* appended; in the next batch a record whose append failed was followed by
\* one process_event failed on, and the loop is still running
C26_Witness ==
    /\ lseen = <<"dropped", "appended", "append_failed", "dropped">>
    /\ npolls = 2
    /\ running
    /\ \A c \in Consumers : lpc[c] # "done"

(***************************************************************************)
(* process_window's engagement_score                                       *)
(***************************************************************************)
\* engagement_score of a snapshot: min(1.0, 0.35*safe_div(products_viewed,
\* page_views) + 0.20*cart_additions + 0.20*safe_div(cart_value, max(1,
\* cart_additions)*40.0) + 0.15*pages_per_minute + 0.10*(not bounce)), where
\* safe_div(a, b) is 0.0 when b is 0 and pages_per_minute is
\* safe_div(page_views, duration_seconds/60.0).  The score is the exact
\* fraction num/den, den > 0.
engagement_score(record) ==
    LET pg == record.page_views
        pv == record.products_viewed
        ca == record.cart_additions
        cv == record.cart_value
        dur == record.session_duration_seconds
        nb == IF record.bounce THEN 0 ELSE 1
        P == IF pg = 0 THEN 1 ELSE pg
        C == 40 * Max(1, ca)
        U == IF dur = 0 THEN 1 ELSE dur
        \* the sum, in hundredths, over the common denominator P * C * U
        n == (IF pg = 0 THEN 0 ELSE 35 * pv * C * U)
             + 20 * ca * P * C * U
             + 20 * cv * P * U
             + (IF dur = 0 THEN 0 ELSE 15 * 60 * pg * P * C)
             + 10 * nb * P * C * U
        d == 100 * P * C * U
        N == IF d < 0 THEN 0 - n ELSE n
        D == IF d < 0 THEN 0 - d ELSE d
    IN  [num |-> IF N >= D THEN D ELSE N, den |-> D]

(***************************************************************************)
(* C27: the engagement_score of every process_window call lies in [0, 1],  *)
(* sessions whose start time was defaulted to the aggregation time         *)
(* included.                                                               *)
(***************************************************************************)
C27_EngagementScoreInUnitInterval ==
    [][\A key \in Visited :
          WindowEvents(key) # <<>> =>
              LET d == Derive(session_metrics, session_starts, key,
                              WindowEvents(key), now)
                  score == engagement_score(d.record)
              IN  ~d.raised => 0 <= score.num /\ score.num <= score.den]_vars

(***************************************************************************)
(* C28: once stop() has closed the sink connections, no thread enters      *)
(* process_window's writes on the closed relational connection or cache    *)
(* client: an aggregation thread that outlived the join does not go on     *)
(* with the remaining keys of its tick.                                    *)
(***************************************************************************)
C28_NoWriteAfterClose ==
    [][\A i \in 1..Len(threads) :
          threads[i].pc # "write" /\ threads'[i].pc = "write"
              => pg_conn # "closed" /\ redis_client # "closed"]_vars

(***************************************************************************)
(* C29: a fold that fails is all-or-nothing: when process_event returns    *)
(* None for a record, the accumulators and first-seen times are as before  *)
(* the call and the record is not appended to the window.                  *)
(***************************************************************************)
C29_FailedFoldChangesNothing ==
    [][\A c \in Consumers :
          /\ lpc[c] = "records" /\ batch[c] # <<>>
          /\ batch'[c] = Tail(batch[c])
          /\ process_event(session_metrics, session_starts, Head(batch[c])).ret = Nil
          => /\ session_metrics' = session_metrics
             /\ session_starts' = session_starts
             /\ data' = data]_vars

(***************************************************************************)
(* The consumer threads folding and appending, statement by statement      *)
(***************************************************************************)
\* thread t stores the item of its current statement; after the branch's
\* last statement process_event returns the event and the loop appends it
\* to the window (`if result:` ... self.window.add_event(key, record.value))
ConcStoreAdd(t) ==
    /\ cev[t] # Nil
    /\ ctmp[t] # Nil
    /\ LET e == cev[t][1]
           sts == Statements(e)
           st == sts[cidx[t]]
           sid == e.session_id[1]
       IN  /\ session_metrics' =
                  [session_metrics EXCEPT
                      ![sid][st.item] = Computed(st.op, ctmp[t][1], e)]
           /\ IF cidx[t] = Len(sts)
              THEN /\ cev' = [cev EXCEPT ![t] = Nil]
                   /\ cidx' = [cidx EXCEPT ![t] = 0]
                   /\ cdone' = Append(cdone, e)
                   /\ data' = add_event(data, extract_key(e), e, now)
              ELSE /\ cidx' = [cidx EXCEPT ![t] = @ + 1]
                   /\ UNCHANGED <<cev, cdone, data>>
    /\ ctmp' = [ctmp EXCEPT ![t] = Nil]
    /\ UNCHANGED <<session_starts, nfolds, now, inserted, lastGet, allKeys,
                   lifeVars, aggVars, extVars>>

InitConcAdd == InitConc

NextConcAdd ==
    \E t \in Consumers :
        \/ \E e \in ConcEvents : ConcBegin(t, e)
        \/ ConcLoad(t)
        \/ ConcStoreAdd(t)

SpecConcAdd == InitConcAdd /\ [][NextConcAdd]_vars

\* the number of events of type ty in a window's deque
RECURSIVE CountType(_, _)
CountType(q, ty) ==
    IF q = <<>> THEN 0
    ELSE (IF Get(Head(q).event, "event_type", Nil) = Some(ty) THEN 1 ELSE 0)
         + CountType(Tail(q), ty)

(***************************************************************************)
(* C30: every key of the window store has an accumulator, and for each     *)
(* counted event type the window holds at most as many events of the type  *)
(* as the accumulator's counter says (page_views, cart_additions,          *)
(* cart_removals, searches).                                               *)
(***************************************************************************)
C30_WindowWithinCounters ==
    \A key \in DOMAIN data :
        /\ key \in DOMAIN session_metrics
        /\ \A ty \in Counted :
               CountType(data[key], ty) <= session_metrics[key][Counter(ty)]

====
